---- MODULE Spec2Model ----
(***************************************************************************)
(* Verification model of the DATC prototype's flight-plan core:            *)
(*   logic/authorization.py     auto_assign_authorization                  *)
(*   logic/flight_planner.py    generate_flight_plan                       *)
(*   logic/flight_validation.py validate_flight_plan                       *)
(*   logic/flight_health.py     assess_flight_health                       *)
(*   Dropdown.py                is_conflicting, generate_safe_plan         *)
(*                                                                         *)
(* Numbers.  The Python code computes in binary floating point; the model  *)
(* computes in fixed point, each quantity in the unit named beside it:     *)
(*   coordinates   micro-degrees (the 6 decimals of Dropdown.py's round)   *)
(*   lengths       decimetres                                              *)
(*   altitudes     millimetres                                             *)
(*   waypoint time milliseconds                                            *)
(*   datetimes     records [s, us]: whole seconds and microseconds, as     *)
(*                 Python's timedelta normalises them                      *)
(*   ratios        hundredths (thrust margin, payload ratio, minutes)      *)
(* Floating-point rounding below these resolutions is not modelled.        *)
(***************************************************************************)
EXTENDS Integers, Sequences, FiniteSets, TLC

VARIABLES
    assessment,     \* arguments of the last auto_assign_authorization call
    grant,          \* its result <<airspace, max_dist, max_alt>>, or NoGrant
    request,        \* the flight request handed to generate_flight_plan
    plan,           \* the FlightPlan under validation or monitoring, or NoPlan
    config,         \* the ValidationConfig
    current_time,   \* the current_time argument
    verdict,        \* None before validate_flight_plan ran, then "OK" or the rule raised
    flight_plans,   \* the rows of the flight_plans table, in insertion order
    existing_flights, \* the scheduled flights a run of Dropdown.py has loaded
    sched_request,  \* the flight that run asks for
    safe_plan,      \* what generate_safe_plan returned to it: [path, start, end]
    conflict_args,  \* the arguments of a call of is_conflicting
    conflict,       \* <<>> before the call, then << its result >>
    telemetry,      \* the TelemetryUpdate handed to assess_flight_health
    report,         \* the FlightHealthReport it returned
    drone,          \* the seven columns of a drones row handed to compute_capability
    approval,       \* the ApprovalResult of handle_flight_request
    callers         \* the runs of Dropdown.py under way at once: where each one is,
                    \* and its local variables

plannerVars == <<request, plan, config, current_time, verdict>>

authVars == <<assessment, grant>>

schedVars == <<flight_plans, existing_flights, sched_request, safe_plan, callers>>

conflictVars == <<conflict_args, conflict>>

healthVars == <<telemetry, report>>

vars == <<authVars, plannerVars, schedVars, conflictVars, healthVars, drone, approval, callers>>

None == "None"

(***************************************************************************)
(* Fixed-point arithmetic                                                  *)
(***************************************************************************)
Abs(x) == IF x < 0 THEN -x ELSE x

Min(a, b) == IF a < b THEN a ELSE b

Max(a, b) == IF a > b THEN a ELSE b

\* floor(a * b / c) for b >= 0 and c > 0, without forming a * b
MulDiv(a, b, c) == (a \div c) * b + ((a % c) * b) \div c

\* math.ceil(a / c) for c > 0
CeilDiv(a, c) == -((-a) \div c)

RECURSIVE SqrtBetween(_, _, _)
SqrtBetween(n, lo, hi) ==
    IF lo >= hi THEN lo
    ELSE LET mid == (lo + hi + 1) \div 2
         IN  IF mid * mid <= n THEN SqrtBetween(n, mid, hi)
                               ELSE SqrtBetween(n, lo, mid - 1)

\* math.sqrt, rounded down; 46340 is the largest root of a 32-bit integer
ISqrt(n) == SqrtBetween(n, 0, Min(n, 46340))

\* sqrt(a*a + b*b); a leg of 0 gives the other leg exactly
Hypot(a, b) ==
    IF a = 0 THEN Abs(b)
    ELSE IF b = 0 THEN Abs(a)
    ELSE ISqrt(a * a + b * b)

(***************************************************************************)
(* datetime and timedelta: [s, us] with 0 <= us < 1000000                  *)
(***************************************************************************)
Td(s, us) == [s |-> s + (us \div 1000000), us |-> us % 1000000]

TdOfMs(ms) == Td(ms \div 1000, (ms % 1000) * 1000)

TdAdd(a, b) == Td(a.s + b.s, a.us + b.us)

TdSub(a, b) == Td(a.s - b.s, a.us - b.us)

TdNeg(a) == Td(-a.s, -a.us)

TdLT(a, b) == a.s < b.s \/ (a.s = b.s /\ a.us < b.us)

TdLE(a, b) == a = b \/ TdLT(a, b)

(***************************************************************************)
(* Geodesy.  Every coordinate of the model lies within 0.05 degrees of the *)
(* equator, where cos(latitude) = 1 to 4 parts in 10^7, so both distance   *)
(* formulas reduce to R * sqrt(dlat^2 + dlon^2).  They differ in dlon:     *)
(* the haversine formula reads it through sin^2(dlon / 2), which is the    *)
(* same for dlon and 360 - dlon; the validator's formula reads it as is.   *)
(***************************************************************************)
\* R * pi / 180 = 111195 m per degree: 1112 dm per 1000 micro-degrees
DM_PER_MILLIDEGREE == 1112

FULL_TURN == 360000000

DmOfArc(microdeg) == MulDiv(microdeg, DM_PER_MILLIDEGREE, 1000)

WrapLon(dlon) == Min(Abs(dlon), FULL_TURN - Abs(dlon))

\* flight_planner.haversine_distance_meters, in dm
haversine_distance_meters(lat1, lon1, lat2, lon2) ==
    DmOfArc(Hypot(lat2 - lat1, WrapLon(lon2 - lon1)))

\* flight_validation._horizontal_distance_meters, in dm
horizontal_distance_meters(wp1, wp2) ==
    DmOfArc(Hypot(wp2.latitude - wp1.latitude, wp2.longitude - wp1.longitude))

(***************************************************************************)
(* logic/flight_planner.py                                                 *)
(***************************************************************************)
WAYPOINT_INTERVAL_SECONDS == 2000   \* ms
CRUISE_ALTITUDE_METERS == 30000     \* mm
GROUND_ALTITUDE_METERS == 0         \* mm
MAX_CLIMB_RATE_MPS == 3000          \* mm/s
MAX_DESCENT_RATE_MPS == 3000        \* mm/s
DEFAULT_DRONE_RADIUS == 10          \* dm

\* A NamedTuple field that holds None is named in the record's `null` set.
Waypoint(lat, lon, alt, t) ==
    [latitude |-> lat, longitude |-> lon, altitude_meters |-> alt, time_seconds |-> t,
     null |-> {}]

FlightPlan(id, st, et, wps, radius) ==
    [flight_id |-> id, start_time |-> st, end_time |-> et, waypoints |-> wps,
     drone_radius_meters |-> radius, null |-> {}]

\* flight_id is a string: a sequence of characters
TEST_FLIGHT == <<"T", "E", "S", "T", "-", "F", "L", "I", "G", "H", "T">>

NoPlan == FlightPlan(<<>>, Td(0, 0), Td(0, 0), <<>>, 0)

\* Mutant of compute_altitude_at_time: the descent is timed from the end of the
\* climb, not from the end of the cruise.
AltitudeDescentFromClimb(elapsed_time, climb_duration, cruise_duration, descent_duration, peak_altitude) ==
    IF elapsed_time <= climb_duration
    THEN IF climb_duration > 0
         THEN (elapsed_time * peak_altitude) \div climb_duration
         ELSE peak_altitude
    ELSE IF elapsed_time <= climb_duration + cruise_duration
    THEN peak_altitude
    ELSE IF descent_duration > 0
    THEN peak_altitude - MulDiv(peak_altitude, elapsed_time - climb_duration, descent_duration)
    ELSE GROUND_ALTITUDE_METERS

\* Altitude (mm) at elapsed_time (ms) of the climb / cruise / descent profile.
compute_altitude_at_time(elapsed_time, climb_duration, cruise_duration, descent_duration, peak_altitude) ==
    IF elapsed_time <= climb_duration
    THEN IF climb_duration > 0
         THEN (elapsed_time * peak_altitude) \div climb_duration
         ELSE peak_altitude
    ELSE IF elapsed_time <= climb_duration + cruise_duration
    THEN peak_altitude
    ELSE LET time_into_descent == elapsed_time - climb_duration - cruise_duration
         IN  IF descent_duration > 0
             THEN peak_altitude - (time_into_descent * peak_altitude) \div descent_duration
             ELSE GROUND_ALTITUDE_METERS

\* minimum_flight_time = horizontal_distance / speed_mps, in ms (dm, m/s)
MinimumFlightTime(start_lat, start_lon, end_lat, end_lon, speed_mps) ==
    (haversine_distance_meters(start_lat, start_lon, end_lat, end_lon) * 100) \div speed_mps

\* Mutant of Profile: the 10 s climb to 30 m and the 10 s descent are kept even
\* when the flight is shorter than the two together.
ProfileAlwaysCruise(minimum_flight_time) ==
    LET ideal_climb_time ==
            ((CRUISE_ALTITUDE_METERS - GROUND_ALTITUDE_METERS) * 1000) \div MAX_CLIMB_RATE_MPS
        ideal_descent_time ==
            ((CRUISE_ALTITUDE_METERS - GROUND_ALTITUDE_METERS) * 1000) \div MAX_DESCENT_RATE_MPS
    IN  [climb |-> ideal_climb_time,
         cruise |-> minimum_flight_time - ideal_climb_time - ideal_descent_time,
         descent |-> ideal_descent_time,
         peak |-> CRUISE_ALTITUDE_METERS]

\* Steps 2-3: [climb, cruise, descent, peak] for a minimum flight time
Profile(minimum_flight_time) ==
    LET ideal_climb_time ==
            ((CRUISE_ALTITUDE_METERS - GROUND_ALTITUDE_METERS) * 1000) \div MAX_CLIMB_RATE_MPS
        ideal_descent_time ==
            ((CRUISE_ALTITUDE_METERS - GROUND_ALTITUDE_METERS) * 1000) \div MAX_DESCENT_RATE_MPS
    IN  IF minimum_flight_time >= ideal_climb_time + ideal_descent_time
        THEN [climb |-> ideal_climb_time,
              cruise |-> minimum_flight_time - ideal_climb_time - ideal_descent_time,
              descent |-> ideal_descent_time,
              peak |-> CRUISE_ALTITUDE_METERS]
        ELSE [climb |-> minimum_flight_time \div 2,
              cruise |-> 0,
              descent |-> minimum_flight_time \div 2,
              peak |-> ((minimum_flight_time \div 2) * MAX_CLIMB_RATE_MPS) \div 1000]

\* Mutant of NumSegments: the quotient is rounded down, not up.
NumSegmentsFloor(total_duration) ==
    LET n == total_duration \div WAYPOINT_INTERVAL_SECONDS
    IN  IF n < 1 THEN 1 ELSE n

\* Step 4: num_segments = max(1, ceil(total_duration / WAYPOINT_INTERVAL_SECONDS))
NumSegments(total_duration) ==
    LET n == CeilDiv(total_duration, WAYPOINT_INTERVAL_SECONDS)
    IN  IF n < 1 THEN 1 ELSE n

generate_flight_plan(start_lat, start_lon, end_lat, end_lon, start_time, speed_mps) ==
    LET p == Profile(MinimumFlightTime(start_lat, start_lon, end_lat, end_lon, speed_mps))
        total_duration == p.climb + p.cruise + p.descent
        num_segments == NumSegments(total_duration)
        wp(i) == LET elapsed_time == MulDiv(total_duration, i, num_segments)
                 IN  Waypoint(start_lat + MulDiv(end_lat - start_lat, i, num_segments),
                              start_lon + MulDiv(end_lon - start_lon, i, num_segments),
                              compute_altitude_at_time(elapsed_time, p.climb, p.cruise,
                                                       p.descent, p.peak),
                              elapsed_time)
    IN  FlightPlan(TEST_FLIGHT,
                   start_time,
                   TdAdd(start_time, TdAdd(TdOfMs(total_duration), Td(0, 1))),
                   [k \in 1..(num_segments + 1) |-> wp(k - 1)],
                   DEFAULT_DRONE_RADIUS)

(***************************************************************************)
(* logic/flight_validation.py                                              *)
(***************************************************************************)
\* An optional threshold left at its default, None
NoLimit == -1

\* ValidationConfig(): altitudes in mm, radii in dm, time deltas, durations and
\* the tolerance in ms, the horizon in days, velocity in dm/s, vertical rates in
\* mm/s, range in dm
DefaultConfig ==
    [max_altitude_meters |-> 120000,
     min_drone_radius_meters |-> 5,
     max_drone_radius_meters |-> 50,
     min_time_delta_seconds |-> 100,
     max_flight_duration_seconds |-> 3600000,
     max_advance_booking_days |-> 30,
     start_time_tolerance_seconds |-> 5000,
     max_velocity_mps |-> NoLimit,
     max_climb_rate_mps |-> NoLimit,
     max_descent_rate_mps |-> NoLimit,
     max_acceleration_mps2 |-> NoLimit,
     max_mission_range_meters |-> NoLimit]

\* EPSILON = 1e-6
EPSILON == Td(0, 1)

RECURSIVE PathLength(_, _, _)
PathLength(waypoints, lo, hi) ==
    IF lo >= hi THEN 0
    ELSE IF hi = lo + 1 THEN horizontal_distance_meters(waypoints[lo], waypoints[hi])
    ELSE LET mid == (lo + hi) \div 2
         IN  PathLength(waypoints, lo, mid) + PathLength(waypoints, mid, hi)

\* _calculate_total_path_length, in dm
calculate_total_path_length(waypoints) == PathLength(waypoints, 1, Len(waypoints))

\* str.strip() leaves nothing
IsBlank(flight_id) == \A k \in 1..Len(flight_id) : flight_id[k] = " "

Segments(p) == 1..(Len(p.waypoints) - 1)

\* 1. Structural integrity: Rule 1.2 on the plan's fields, Rule 1.1, Rule 1.2 on
\* the waypoints' fields
StructuralRules(p) ==
    IF p.null # {} THEN "1.2"
    ELSE IF Len(p.waypoints) < 2 THEN "1.1"
    ELSE IF \E i \in 1..Len(p.waypoints) : p.waypoints[i].null # {} THEN "1.2"
    ELSE "OK"

\* 7. Identifier
IdentifierRules(p) ==
    IF Len(p.flight_id) = 0 \/ IsBlank(p.flight_id) THEN "7.1" ELSE "OK"

\* The rule the first out-of-bounds waypoint raises
GeographicRuleAt(wp) ==
    IF wp.latitude < -90000000 \/ wp.latitude > 90000000 THEN "2.1"
    ELSE IF wp.longitude < -180000000 \/ wp.longitude > 180000000 THEN "2.2"
    ELSE "OK"

MinOf(S) == CHOOSE x \in S : \A y \in S : x <= y

\* 2. Geographic coordinates: the rule the first out-of-bounds waypoint raises
GeographicRules(p) ==
    LET bad == {i \in 1..Len(p.waypoints) : GeographicRuleAt(p.waypoints[i]) # "OK"}
    IN  IF bad = {} THEN "OK" ELSE GeographicRuleAt(p.waypoints[MinOf(bad)])

AltitudeRuleAt(wp, c) ==
    IF wp.altitude_meters < 0 THEN "3.1"
    ELSE IF wp.altitude_meters > c.max_altitude_meters THEN "3.2"
    ELSE "OK"

\* 3. Altitude
AltitudeRules(p, c) ==
    LET bad == {i \in 1..Len(p.waypoints) : AltitudeRuleAt(p.waypoints[i], c) # "OK"}
    IN  IF bad = {} THEN "OK" ELSE AltitudeRuleAt(p.waypoints[MinOf(bad)], c)

\* Mutant of DimensionRules: Rule 6.3, the minimum radius, is missing.
DimensionRulesNoMinimum(p, c) ==
    IF p.drone_radius_meters <= 0 THEN "6.1"
    ELSE IF p.drone_radius_meters > c.max_drone_radius_meters THEN "6.2"
    ELSE "OK"

\* 6. Physical dimension
DimensionRules(p, c) ==
    IF p.drone_radius_meters <= 0 THEN "6.1"
    ELSE IF p.drone_radius_meters < c.min_drone_radius_meters THEN "6.3"
    ELSE IF p.drone_radius_meters > c.max_drone_radius_meters THEN "6.2"
    ELSE "OK"

\* Mutant of TemporalRules: Rule 4.3 is left out, Rule 10.1 being counted on.
TemporalRulesWithout43(p, c, now) ==
    LET wps == p.waypoints
        authorization_duration_seconds == TdSub(p.end_time, p.start_time)
        final_waypoint_time == TdOfMs(wps[Len(wps)].time_seconds)
        time_until_start == TdSub(p.start_time, now)
    IN  IF wps[1].time_seconds # 0 THEN "4.4"
        ELSE IF \E i \in Segments(p) : wps[i].time_seconds >= wps[i + 1].time_seconds
        THEN "4.1"
        ELSE IF \E i \in Segments(p) :
                    wps[i + 1].time_seconds - wps[i].time_seconds < c.min_time_delta_seconds
        THEN "4.5"
        ELSE IF TdLE(p.end_time, p.start_time) THEN "4.2"
        ELSE IF TdLT(time_until_start, TdNeg(TdOfMs(c.start_time_tolerance_seconds)))
        THEN "9.1"
        ELSE IF TdLT(Td(c.max_advance_booking_days * 86400, 0), time_until_start)
        THEN "9.2"
        ELSE IF TdLT(TdOfMs(c.max_flight_duration_seconds), authorization_duration_seconds)
        THEN "9.3"
        ELSE IF TdLT(TdAdd(authorization_duration_seconds, EPSILON), final_waypoint_time)
        THEN "10.1"
        ELSE "OK"

\* 4., 9. and 10. Temporal
TemporalRules(p, c, now) ==
    LET wps == p.waypoints
        authorization_duration_seconds == TdSub(p.end_time, p.start_time)
        final_waypoint_time == TdOfMs(wps[Len(wps)].time_seconds)
        time_until_start == TdSub(p.start_time, now)
    IN  IF wps[1].time_seconds # 0 THEN "4.4"
        ELSE IF \E i \in Segments(p) : wps[i].time_seconds >= wps[i + 1].time_seconds
        THEN "4.1"
        ELSE IF \E i \in Segments(p) :
                    wps[i + 1].time_seconds - wps[i].time_seconds < c.min_time_delta_seconds
        THEN "4.5"
        ELSE IF TdLE(p.end_time, p.start_time) THEN "4.2"
        ELSE IF TdLT(TdAdd(authorization_duration_seconds, EPSILON), final_waypoint_time)
        THEN "4.3"
        ELSE IF TdLT(time_until_start, TdNeg(TdOfMs(c.start_time_tolerance_seconds)))
        THEN "9.1"
        ELSE IF TdLT(Td(c.max_advance_booking_days * 86400, 0), time_until_start)
        THEN "9.2"
        ELSE IF TdLT(TdOfMs(c.max_flight_duration_seconds), authorization_duration_seconds)
        THEN "9.3"
        ELSE IF TdLT(TdAdd(authorization_duration_seconds, EPSILON), final_waypoint_time)
        THEN "10.1"
        ELSE "OK"

\* Mutant of GeometryRules: Rule 8.2 rejects only a negative path length.
GeometryRulesNegativeOnly(p, c) ==
    LET wps == p.waypoints
        total_path_length == calculate_total_path_length(wps)
    IN  IF \E i \in Segments(p) :
                /\ wps[i].latitude = wps[i + 1].latitude
                /\ wps[i].longitude = wps[i + 1].longitude
                /\ wps[i].altitude_meters = wps[i + 1].altitude_meters
        THEN "8.1"
        ELSE IF total_path_length < 0 THEN "8.2"
        ELSE IF /\ c.max_mission_range_meters # NoLimit
                /\ total_path_length > c.max_mission_range_meters
        THEN "8.2A"
        ELSE "OK"

\* 8. Path geometry
GeometryRules(p, c) ==
    LET wps == p.waypoints
        total_path_length == calculate_total_path_length(wps)
    IN  IF \E i \in Segments(p) :
                /\ wps[i].latitude = wps[i + 1].latitude
                /\ wps[i].longitude = wps[i + 1].longitude
                /\ wps[i].altitude_meters = wps[i + 1].altitude_meters
        THEN "8.1"
        ELSE IF total_path_length <= 0 THEN "8.2"
        ELSE IF /\ c.max_mission_range_meters # NoLimit
                /\ total_path_length > c.max_mission_range_meters
        THEN "8.2A"
        ELSE "OK"

\* velocity = distance / time_delta (dm, ms) exceeds a limit in dm/s; time_delta
\* is positive once Rule 4.1 has passed.  distance * 1000 > limit * time_delta,
\* with the whole multiples of time_delta in distance taken out of both sides.
VelocityExceeds(wp1, wp2, limit) ==
    LET distance == horizontal_distance_meters(wp1, wp2)
        time_delta == wp2.time_seconds - wp1.time_seconds
        whole == distance \div time_delta
        rest == distance % time_delta
    IN  \/ 1000 * whole > limit
        \/ 1000 * rest > (limit - 1000 * whole) * time_delta

\* vertical_rate = altitude_change / time_delta (mm, ms) exceeds a limit in mm/s
VerticalRateExceeds(wp1, wp2, limit) ==
    (wp2.altitude_meters - wp1.altitude_meters) * 1000
        > limit * (wp2.time_seconds - wp1.time_seconds)

\* Mutant of PerformanceRules: the climb loop also tests a descending segment
\* against max_descent_rate_mps.
PerformanceRulesWithDescent(p, c) ==
    LET wps == p.waypoints
    IN  IF /\ c.max_velocity_mps # NoLimit
           /\ \E i \in Segments(p) : VelocityExceeds(wps[i], wps[i + 1], c.max_velocity_mps)
        THEN "5.1"
        ELSE IF /\ (c.max_climb_rate_mps # NoLimit \/ c.max_descent_rate_mps # NoLimit)
                /\ \E i \in Segments(p) :
                       \/ /\ wps[i + 1].altitude_meters - wps[i].altitude_meters > 0
                          /\ c.max_climb_rate_mps # NoLimit
                          /\ VerticalRateExceeds(wps[i], wps[i + 1], c.max_climb_rate_mps)
                       \/ /\ wps[i + 1].altitude_meters - wps[i].altitude_meters < 0
                          /\ c.max_descent_rate_mps # NoLimit
                          /\ VerticalRateExceeds(wps[i + 1], wps[i], -c.max_descent_rate_mps)
        THEN "3.3"
        ELSE "OK"

\* Mutant of PerformanceRules: the velocity loop runs whether or not
\* max_velocity_mps is set, a missing limit counting as 0.
PerformanceRulesUngated(p, c) ==
    LET wps == p.waypoints
    IN  IF \E i \in Segments(p) :
               VelocityExceeds(wps[i], wps[i + 1], Max(c.max_velocity_mps, 0))
        THEN "5.1"
        ELSE IF /\ (c.max_climb_rate_mps # NoLimit \/ c.max_descent_rate_mps # NoLimit)
                /\ \E i \in Segments(p) :
                       /\ wps[i + 1].altitude_meters - wps[i].altitude_meters > 0
                       /\ c.max_climb_rate_mps # NoLimit
                       /\ VerticalRateExceeds(wps[i], wps[i + 1], c.max_climb_rate_mps)
        THEN "3.3"
        ELSE "OK"

\* Advanced checks: Rule 5.1, then Rule 3.3
PerformanceRules(p, c) ==
    LET wps == p.waypoints
    IN  IF /\ c.max_velocity_mps # NoLimit
           /\ \E i \in Segments(p) : VelocityExceeds(wps[i], wps[i + 1], c.max_velocity_mps)
        THEN "5.1"
        ELSE IF /\ (c.max_climb_rate_mps # NoLimit \/ c.max_descent_rate_mps # NoLimit)
                /\ \E i \in Segments(p) :
                       /\ wps[i + 1].altitude_meters - wps[i].altitude_meters > 0
                       /\ c.max_climb_rate_mps # NoLimit
                       /\ VerticalRateExceeds(wps[i], wps[i + 1], c.max_climb_rate_mps)
        THEN "3.3"
        ELSE "OK"

\* Mutant of validate_flight_plan: the altitude loop runs before the structural
\* rules.
ValidateAltitudeFirst(p, c, now) ==
    IF AltitudeRules(p, c) # "OK" THEN AltitudeRules(p, c)
    ELSE IF StructuralRules(p) # "OK" THEN StructuralRules(p)
    ELSE IF IdentifierRules(p) # "OK" THEN IdentifierRules(p)
    ELSE IF GeographicRules(p) # "OK" THEN GeographicRules(p)
    ELSE IF DimensionRules(p, c) # "OK" THEN DimensionRules(p, c)
    ELSE IF TemporalRules(p, c, now) # "OK" THEN TemporalRules(p, c, now)
    ELSE IF GeometryRules(p, c) # "OK" THEN GeometryRules(p, c)
    ELSE PerformanceRules(p, c)

\* "OK" when nothing is raised, else the number of the rule in the ValueError
validate_flight_plan(p, c, now) ==
    IF StructuralRules(p) # "OK" THEN StructuralRules(p)
    ELSE IF IdentifierRules(p) # "OK" THEN IdentifierRules(p)
    ELSE IF GeographicRules(p) # "OK" THEN GeographicRules(p)
    ELSE IF AltitudeRules(p, c) # "OK" THEN AltitudeRules(p, c)
    ELSE IF DimensionRules(p, c) # "OK" THEN DimensionRules(p, c)
    ELSE IF TemporalRules(p, c, now) # "OK" THEN TemporalRules(p, c, now)
    ELSE IF GeometryRules(p, c) # "OK" THEN GeometryRules(p, c)
    ELSE PerformanceRules(p, c)

(***************************************************************************)
(* logic/flight_approval.py.  A flight_plan of None is NoPlan; the reason  *)
(* is None or the rule of the violation message.                           *)
(***************************************************************************)
ApprovalResult(status, flight_plan, reason) ==
    [status |-> status, flight_plan |-> flight_plan, reason |-> reason]

NoApproval == ApprovalResult(None, NoPlan, None)

\* Mutant of handle_flight_request: a rejection still carries the plan.
HandleKeepingPlan(r, now) ==
    LET generated == generate_flight_plan(r.route.start_lat, r.route.start_lon,
                                          r.route.end_lat, r.route.end_lon,
                                          r.start_time, r.speed_mps)
        raised == validate_flight_plan(generated, DefaultConfig, now)
    IN  IF raised = "OK" THEN ApprovalResult("APPROVED", generated, None)
        ELSE ApprovalResult("REJECTED", generated, raised)

\* now is what datetime.utcnow() returns inside validate_flight_plan
handle_flight_request(r, now) ==
    LET generated == generate_flight_plan(r.route.start_lat, r.route.start_lon,
                                          r.route.end_lat, r.route.end_lon,
                                          r.start_time, r.speed_mps)
        raised == validate_flight_plan(generated, DefaultConfig, now)
    IN  IF raised = "OK" THEN ApprovalResult("APPROVED", generated, None)
        ELSE ApprovalResult("REJECTED", NoPlan, raised)

(***************************************************************************)
(* logic/capability.py.  An argument is <<>> for None and <<n>> for the    *)
(* number n.  Thrust, weights and payload are in hundredths of a kg, the   *)
(* battery in Wh, the cruise power in W, the wind limit in whole units;    *)
(* the margin, the payload ratio and the minutes come out in hundredths.   *)
(***************************************************************************)
DEFAULT_MOTOR_THRUST == 100
DEFAULT_MOTOR_COUNT == 4
DEFAULT_TAKEOFF_WEIGHT == 250
DEFAULT_MAX_PAYLOAD == 30
DEFAULT_BATTERY_WH == 50
DEFAULT_CRUISE_POWER == 200
DEFAULT_WIND_LIMIT == 10

\* Mutant of OrDefault: only a missing value is replaced, zero is kept.
OrDefaultIfNone(x, default) == IF x = <<>> THEN default ELSE x[1]

\* x or default: None and 0 are falsy
OrDefault(x, default) == IF x = <<>> \/ x[1] = 0 THEN default ELSE x[1]

\* floor(a / b) for b # 0
Quot(a, b) == IF b > 0 THEN a \div b ELSE (-a) \div (-b)

\* Mutant of ThrustStateOf: a margin of exactly 1.8 is UNSAFE.
ThrustStateStrict(thrust_margin) ==
    IF thrust_margin <= 180 THEN "UNSAFE"
    ELSE IF thrust_margin <= 220 THEN "MARGINAL"
    ELSE "SAFE"

ThrustStateOf(thrust_margin) ==
    IF thrust_margin < 180 THEN "UNSAFE"
    ELSE IF thrust_margin <= 220 THEN "MARGINAL"
    ELSE "SAFE"

\* Mutant of EnduranceStateOf: exactly 15 minutes is PASS.
EnduranceStateStrict(safe_time) ==
    IF safe_time < 1000 THEN "FAIL"
    ELSE IF safe_time < 1500 THEN "LIMITED"
    ELSE "PASS"

EnduranceStateOf(safe_time) ==
    IF safe_time < 1000 THEN "FAIL"
    ELSE IF safe_time <= 1500 THEN "LIMITED"
    ELSE "PASS"

WindRiskOf(wind_limit) ==
    IF wind_limit < 15 THEN "HIGH"
    ELSE IF wind_limit < 25 THEN "MEDIUM"
    ELSE "LOW"

Assessment(thrust_margin, thrust_state, safe_time, endurance_state, payload_ratio, wind_risk) ==
    [thrust_margin |-> thrust_margin, thrust_state |-> thrust_state, safe_time |-> safe_time,
     endurance_state |-> endurance_state, payload_ratio |-> payload_ratio, wind_risk |-> wind_risk]

\* what the caller is left with when a division raises
ZeroDivisionError ==
    Assessment(0, "ZeroDivisionError", 0, "ZeroDivisionError", 0, "ZeroDivisionError")

\* no assessment made yet
NoAssessment == Assessment(0, None, 0, None, 0, None)

compute_capability(motor_thrust, motor_count, takeoff_weight, max_payload, battery_wh, cruise_power, wind_limit) ==
    LET thrust == OrDefault(motor_thrust, DEFAULT_MOTOR_THRUST)
        count == OrDefault(motor_count, DEFAULT_MOTOR_COUNT)
        weight == OrDefault(takeoff_weight, DEFAULT_TAKEOFF_WEIGHT)
        payload == OrDefault(max_payload, DEFAULT_MAX_PAYLOAD)
        battery == OrDefault(battery_wh, DEFAULT_BATTERY_WH)
        power == OrDefault(cruise_power, DEFAULT_CRUISE_POWER)
        wind == OrDefault(wind_limit, DEFAULT_WIND_LIMIT)
        thrust_margin == Quot(thrust * count * 100, weight)
        \* (battery / power) * 60 * 0.75, rounded once
        safe_time == Quot(battery * 60 * 75, power)
    IN  IF weight = 0 \/ power = 0 THEN ZeroDivisionError
        ELSE Assessment(thrust_margin, ThrustStateOf(thrust_margin),
                        safe_time, EnduranceStateOf(safe_time),
                        Quot(payload * 100, weight), WindRiskOf(wind))

(***************************************************************************)
(* logic/authorization.py                                                  *)
(***************************************************************************)
NoGrant == <<None, 0, 0>>

\* round(max_dist, 1): hundredths of a km to tenths of a km, to nearest.
Round1(h) == (h + 5) \div 10

\* Mutant of MaxAltOf: CONTROLLED airspace gets the OPEN ceiling.
MaxAltControlledOpen(airspace) ==
    CASE airspace = "RESTRICTED" -> 60
      [] airspace = "CONTROLLED" -> 120
      [] airspace = "OPEN"       -> 120

\* max_alt = {...}[airspace]
MaxAltOf(airspace) ==
    CASE airspace = "RESTRICTED" -> 60
      [] airspace = "CONTROLLED" -> 90
      [] airspace = "OPEN"       -> 120

\* Mutant of AirspaceOf: only LOW opens the airspace; anything unrecognised is
\* treated as HIGH.
AirspaceOfFailClosed(wind_risk) ==
    IF wind_risk = "LOW" THEN "OPEN"
    ELSE IF wind_risk = "MEDIUM" THEN "CONTROLLED"
    ELSE "RESTRICTED"

AirspaceOf(wind_risk) ==
    IF wind_risk = "HIGH" THEN "RESTRICTED"
    ELSE IF wind_risk = "MEDIUM" THEN "CONTROLLED"
    ELSE "OPEN"

\* base max distance by safe_time (minutes, in hundredths); km in hundredths
BaseDist(safe_time) ==
    IF safe_time < 1000 THEN 100
    ELSE IF safe_time < 2000 THEN 300
    ELSE IF safe_time < 4000 THEN 800
    ELSE 1500

\* Mutant of PayloadPenalty: a ratio of exactly 0.85 is penalised too.
PayloadPenaltyInclusive(d, payload_ratio) == IF payload_ratio >= 85 THEN (d * 5) \div 10 ELSE d

PayloadPenalty(d, payload_ratio) == IF payload_ratio > 85 THEN (d * 5) \div 10 ELSE d

\* Mutant of ThrustBonus: the bonus is never applied.
ThrustBonusNever(d, thrust_margin) == d

ThrustBonus(d, thrust_margin) == IF thrust_margin > 180 THEN (d * 12) \div 10 ELSE d

\* Mutant of HardGate: the gate needs both states to be bad.
HardGateAnd(thrust_state, endurance_state) ==
    thrust_state # "SAFE" /\ endurance_state # "PASS"

\* if thrust_state != "SAFE" or endurance_state != "PASS"
HardGate(thrust_state, endurance_state) ==
    thrust_state # "SAFE" \/ endurance_state # "PASS"

\* The result is <<airspace, max distance in tenths of a km, max altitude in m>>.
auto_assign_authorization(thrust_margin, thrust_state, safe_time, endurance_state, payload_ratio, wind_risk) ==
    IF HardGate(thrust_state, endurance_state)
    THEN <<"RESTRICTED", 10, 60>>
    ELSE LET airspace == AirspaceOf(wind_risk)
             max_dist == ThrustBonus(PayloadPenalty(BaseDist(safe_time), payload_ratio),
                                     thrust_margin)
         IN  <<airspace, Round1(max_dist), MaxAltOf(airspace)>>

\* Inputs of the authorization assigner.
ThrustMargins  == {160, 180, 181, 220, 250}
ThrustStates   == {"UNSAFE", "MARGINAL", "SAFE", None}
SafeTimes      == {500, 1000, 1125, 2000, 3999, 4000}
EnduranceStates == {"FAIL", "LIMITED", "PASS", None}
PayloadRatios  == {12, 85, 86}
\* wind_risk: the three of compute_capability, a missing one and a misspelt one
WindRisks      == {"HIGH", "MEDIUM", "LOW", None, "high"}

(***************************************************************************)
(* Dropdown.py (flight planner part).  Times are in half seconds from a    *)
(* base date; an ISO string read by datetime.fromisoformat is its instant, *)
(* and strftime("%Y-%m-%d %H:%M:%S") drops the fraction of a second.       *)
(* path_json is the path itself: json.loads(json.dumps(path)) == path.     *)
(***************************************************************************)
SPACING_METERS == 500     \* dm
CRUISE_ALT == 30          \* m
SPEED_MPS == 10           \* m/s
TAKEOFF_RATE == 3         \* m/s
OFFSET_STEP == 300        \* 0.0003 degrees
OFFSET_TRIES == 5
DELAY_TRIES == 3
DELAY_STEP_MINUTES == 5
DEFAULT_THRESHOLD == 40   \* m

\* timedelta(seconds=n), in half seconds
Seconds(n) == 2 * n

\* strftime("%Y-%m-%d %H:%M:%S")
FormatEta(t) == t - (t % 2)

\* round(a / n, 0) for n > 0: the nearest integer
RoundDiv(a, n) == (2 * a + n) \div (2 * n)

\* geopy's geodesic((lat1, lon1), (lat2, lon2)).meters, in dm
geodesic(lat1, lon1, lat2, lon2) == DmOfArc(Hypot(lat2 - lat1, lon2 - lon1))

PathPoint(lat, lon, alt, eta, type) ==
    [lat |-> lat, lon |-> lon, alt |-> alt, eta |-> eta, type |-> type]

generate_waypoints_with_eta(start_lat, start_lon, end_lat, end_lon, start_time, offset_deg) ==
    LET lat0 == start_lat + offset_deg
        lon0 == start_lon + offset_deg
        lat1 == end_lat + offset_deg
        lon1 == end_lon + offset_deg
        total_distance == geodesic(lat0, lon0, lat1, lon1)
        num_segments == Max(1, CeilDiv(total_distance, SPACING_METERS))
        takeoff_duration == CRUISE_ALT \div TAKEOFF_RATE
        cruise_start == start_time + Seconds(takeoff_duration)
        cruise(i) == PathPoint(lat0 + RoundDiv(i * (lat1 - lat0), num_segments),
                               lon0 + RoundDiv(i * (lon1 - lon0), num_segments),
                               CRUISE_ALT,
                               FormatEta(cruise_start
                                         + Seconds((i * (SPACING_METERS \div 10)) \div SPEED_MPS)),
                               "cruise")
    IN  << PathPoint(lat0, lon0, 0, FormatEta(start_time), "takeoff") >>
        \o [k \in 1..(num_segments + 1) |-> cruise(k - 1)]

\* Mutant of Overlaps: windows that only touch count as overlapping.
OverlapsOrTouches(new_start, new_end, flight) ==
    new_start <= flight.end_time /\ new_end >= flight.start_time

\* if new_start < existing_end and new_end > existing_start
Overlaps(new_start, new_end, flight) ==
    new_start < flight.end_time /\ new_end > flight.start_time

\* Mutant of is_conflicting: two waypoints count as close only when they are also
\* less than 10 m apart in height.
IsConflictingWithHeight(new_path, new_start, new_end, existing, threshold) ==
    \E f \in 1..Len(existing) :
        /\ Overlaps(new_start, new_end, existing[f])
        /\ \E a \in 1..Len(new_path), b \in 1..Len(existing[f].path_json) :
               /\ geodesic(new_path[a].lat, new_path[a].lon,
                           existing[f].path_json[b].lat, existing[f].path_json[b].lon)
                      < threshold * 10
               /\ Abs(new_path[a].alt - existing[f].path_json[b].alt) < 10

\* existing_flights is a sequence of rows; threshold is in metres
is_conflicting(new_path, new_start, new_end, existing, threshold) ==
    \E f \in 1..Len(existing) :
        /\ Overlaps(new_start, new_end, existing[f])
        /\ \E a \in 1..Len(new_path), b \in 1..Len(existing[f].path_json) :
               geodesic(new_path[a].lat, new_path[a].lon,
                        existing[f].path_json[b].lat, existing[f].path_json[b].lon)
                   < threshold * 10

\* (None, None, None); evaluated counts the candidate plans that were tested
NoSafePlan == [path |-> <<>>, start |-> -1, end |-> -1, evaluated |-> 0]

\* Mutant of Candidate: a delayed plan is also moved sideways.
CandidateDelayedAndOffset(r, k) ==
    LET start == IF k < OFFSET_TRIES THEN r.start_time
                 ELSE r.start_time + Seconds((k - OFFSET_TRIES + 1) * DELAY_STEP_MINUTES * 60)
        offset == IF k < OFFSET_TRIES THEN k * OFFSET_STEP
                  ELSE (k - OFFSET_TRIES + 1) * OFFSET_STEP
        path == generate_waypoints_with_eta(r.start_lat, r.start_lon, r.end_lat, r.end_lon,
                                            start, offset)
    IN  [path |-> path, start |-> start, end |-> path[Len(path)].eta]

\* The k-th plan generate_safe_plan tries, k = 0 .. 7: five lateral offsets at the
\* requested start, then three delays without offset
Candidate(r, k) ==
    LET start == IF k < OFFSET_TRIES THEN r.start_time
                 ELSE r.start_time + Seconds((k - OFFSET_TRIES + 1) * DELAY_STEP_MINUTES * 60)
        offset == IF k < OFFSET_TRIES THEN k * OFFSET_STEP ELSE 0
        path == generate_waypoints_with_eta(r.start_lat, r.start_lon, r.end_lat, r.end_lon,
                                            start, offset)
    IN  [path |-> path, start |-> start, end |-> path[Len(path)].eta]

CandidateConflicts(r, k, existing) ==
    LET c == Candidate(r, k)
    IN  is_conflicting(c.path, c.start, c.end, existing, DEFAULT_THRESHOLD)

\* The two loops from their k-th iteration on, with `tries` iterations in all
RECURSIVE TryCandidates(_, _, _, _)
TryCandidates(r, existing, k, tries) ==
    IF k >= tries THEN [NoSafePlan EXCEPT !.evaluated = k]
    ELSE IF ~CandidateConflicts(r, k, existing)
         THEN LET c == Candidate(r, k)
              IN  [path |-> c.path, start |-> c.start, end |-> c.end, evaluated |-> k + 1]
         ELSE TryCandidates(r, existing, k + 1, tries)

\* Mutant of generate_safe_plan: the requested plan is returned untested.
SafePlanUnchecked(r, existing) ==
    LET c == Candidate(r, 0)
    IN  [path |-> c.path, start |-> c.start, end |-> c.end, evaluated |-> 1]

\* Mutant of generate_safe_plan: the delay phase is missing.
SafePlanOffsetsOnly(r, existing) == TryCandidates(r, existing, 0, OFFSET_TRIES)

generate_safe_plan(r, existing) == TryCandidates(r, existing, 0, OFFSET_TRIES + DELAY_TRIES)

\* save_flight_plan's row
FlightRow(drone_id, path, start_time, end_time) ==
    [drone_id |-> drone_id, path_json |-> path, start_time |-> start_time,
     end_time |-> end_time, status |-> "scheduled"]

\* SELECT ... FROM flight_plans WHERE status = 'scheduled'
LoadScheduled(table) == SelectSeq(table, LAMBDA row : row.status = "scheduled")

(***************************************************************************)
(* logic/flight_health.py.  Its haversine_distance_meters is the planner's *)
(* formula, written out a second time.  Durations are timedeltas [s, us];  *)
(* the fraction along a segment is taken in whole milliseconds.            *)
(***************************************************************************)
MAX_POSITION_ERROR_METERS == 100      \* dm
MAX_ALTITUDE_ERROR_METERS == 5000     \* mm
MAX_TIME_DELAY_SECONDS == 10
MAX_TELEMETRY_AGE_SECONDS == 30

TdAbs(d) == IF TdLT(d, Td(0, 0)) THEN TdNeg(d) ELSE d

\* whole milliseconds of a non-negative timedelta
MsOfTd(d) == d.s * 1000 + d.us \div 1000

\* floor(a * b / c) for a >= 0 and c > 0, b of either sign
MulDivSigned(a, b, c) == IF b >= 0 THEN MulDiv(a, b, c) ELSE -MulDiv(a, -b, c)

TelemetryUpdate(flight_id, timestamp, latitude, longitude, altitude_meters) ==
    [flight_id |-> flight_id, timestamp |-> timestamp, latitude |-> latitude,
     longitude |-> longitude, altitude_meters |-> altitude_meters]

FlightHealthReport(status, reason, position_error, altitude_error, time_error) ==
    [status |-> status, reason |-> reason, position_error_meters |-> position_error,
     altitude_error_meters |-> altitude_error, time_error_seconds |-> time_error]

NoTelemetry == TelemetryUpdate(<<>>, Td(0, 0), 0, 0, 0)

NoReport == FlightHealthReport(None, "", 0, 0, Td(0, 0))

\* wp1.time_seconds <= elapsed_seconds <= wp2.time_seconds
Brackets(p, i, elapsed) ==
    /\ TdLE(TdOfMs(p.waypoints[i].time_seconds), elapsed)
    /\ TdLE(elapsed, TdOfMs(p.waypoints[i + 1].time_seconds))

\* Mutant of InterpolateSegment: the expected position is the segment's first waypoint.
InterpolateSegmentStart(wp1, wp2, elapsed) ==
    << wp1.latitude, wp1.longitude, wp1.altitude_meters, elapsed >>

\* wp1 + t * (wp2 - wp1) at the given instant
InterpolateSegment(wp1, wp2, elapsed) ==
    LET segment_duration == wp2.time_seconds - wp1.time_seconds
        into == MsOfTd(elapsed) - wp1.time_seconds
        along(a, b) == IF segment_duration > 0
                       THEN a + MulDivSigned(into, b - a, segment_duration)
                       ELSE a
    IN  << along(wp1.latitude, wp2.latitude), along(wp1.longitude, wp2.longitude),
           along(wp1.altitude_meters, wp2.altitude_meters), elapsed >>

\* <<>> is None; otherwise (latitude, longitude, altitude_meters, elapsed_seconds)
interpolate_expected_position(p, telemetry_time) ==
    LET elapsed_seconds == TdSub(telemetry_time, p.start_time)
        total_duration == TdSub(p.end_time, p.start_time)
        waypoints == p.waypoints
        hits == {i \in 1..(Len(waypoints) - 1) : Brackets(p, i, elapsed_seconds)}
        final_wp == waypoints[Len(waypoints)]
    IN  IF TdLT(elapsed_seconds, Td(0, 0)) THEN <<>>
        ELSE IF TdLT(total_duration, elapsed_seconds) THEN <<>>
        ELSE IF hits # {}
             THEN InterpolateSegment(waypoints[MinOf(hits)], waypoints[MinOf(hits) + 1],
                                     elapsed_seconds)
        ELSE << final_wp.latitude, final_wp.longitude, final_wp.altitude_meters,
                elapsed_seconds >>

\* Mutant of Classify: the delay is tested before the spatial errors.
ClassifyDelayFirst(position_error, altitude_error, time_error) ==
    IF TdLT(Td(MAX_TIME_DELAY_SECONDS, 0), time_error) THEN "DELAYED"
    ELSE IF position_error > MAX_POSITION_ERROR_METERS THEN "OFF_TRACK"
    ELSE IF altitude_error > MAX_ALTITUDE_ERROR_METERS THEN "OFF_TRACK"
    ELSE "ON_TRACK"

\* Step 6 of assess_flight_health
Classify(position_error, altitude_error, time_error) ==
    IF position_error > MAX_POSITION_ERROR_METERS THEN "OFF_TRACK"
    ELSE IF altitude_error > MAX_ALTITUDE_ERROR_METERS THEN "OFF_TRACK"
    ELSE IF TdLT(Td(MAX_TIME_DELAY_SECONDS, 0), time_error) THEN "DELAYED"
    ELSE "ON_TRACK"

ClassifyReason(position_error, altitude_error) ==
    IF position_error > MAX_POSITION_ERROR_METERS THEN "Position error exceeds limit"
    ELSE IF altitude_error > MAX_ALTITUDE_ERROR_METERS THEN "Altitude error exceeds limit"
    ELSE ""

\* Mutant of AssessAgainst: the time error is the time since the start of the
\* plan, the telemetry's own elapsed time not being taken off.
AssessAgainstSinceStart(expected, p, t, now) ==
    LET position_error == haversine_distance_meters(t.latitude, t.longitude,
                                                    expected[1], expected[2])
        altitude_error == Abs(t.altitude_meters - expected[3])
        time_error == TdSub(now, p.start_time)
        status == Classify(position_error, altitude_error, time_error)
        reason == IF status = "OFF_TRACK" THEN ClassifyReason(position_error, altitude_error)
                  ELSE IF status = "DELAYED" THEN "Time delay exceeds limit"
                  ELSE "All parameters within acceptable tolerances"
    IN  FlightHealthReport(status, reason, position_error, altitude_error, time_error)

\* Steps 4 to 6, for an expected position that is not None
AssessAgainst(expected, p, t, now) ==
    LET position_error == haversine_distance_meters(t.latitude, t.longitude,
                                                    expected[1], expected[2])
        altitude_error == Abs(t.altitude_meters - expected[3])
        current_elapsed == TdSub(now, p.start_time)
        time_error == TdSub(current_elapsed, TdSub(t.timestamp, p.start_time))
        status == Classify(position_error, altitude_error, time_error)
        reason == IF status = "OFF_TRACK" THEN ClassifyReason(position_error, altitude_error)
                  ELSE IF status = "DELAYED" THEN "Time delay exceeds limit"
                  ELSE "All parameters within acceptable tolerances"
    IN  FlightHealthReport(status, reason, position_error, altitude_error, time_error)

assess_flight_health(p, t, now) ==
    LET telemetry_age == TdSub(now, t.timestamp)
        elapsed_seconds == TdSub(t.timestamp, p.start_time)
        total_duration == TdSub(p.end_time, p.start_time)
        expected_position == interpolate_expected_position(p, t.timestamp)
    IN  IF TdLT(Td(MAX_TELEMETRY_AGE_SECONDS, 0), telemetry_age)
        THEN FlightHealthReport("LOST", "Telemetry stale", 0, 0, telemetry_age)
        ELSE IF TdLT(telemetry_age, Td(0, 0))
        THEN FlightHealthReport("LOST", "Telemetry timestamp in future", 0, 0,
                                TdAbs(telemetry_age))
        ELSE IF TdLT(elapsed_seconds, Td(0, 0))
        THEN FlightHealthReport("LOST", "Telemetry before flight start", 0, 0,
                                TdAbs(elapsed_seconds))
        ELSE IF TdLT(TdAdd(total_duration, Td(MAX_TELEMETRY_AGE_SECONDS, 0)), elapsed_seconds)
        THEN FlightHealthReport("LOST", "Telemetry after flight end", 0, 0,
                                TdSub(elapsed_seconds, total_duration))
        ELSE IF expected_position = <<>>
        THEN FlightHealthReport("LOST", "Cannot interpolate expected position from plan",
                                0, 0, Td(0, 0))
        ELSE AssessAgainst(expected_position, p, t, now)

(***************************************************************************)
(* logic/test_planner.py: a request is planned, then the plan is validated *)
(***************************************************************************)
Route(lat1, lon1, lat2, lon2) ==
    [start_lat |-> lat1, start_lon |-> lon1, end_lat |-> lat2, end_lon |-> lon2]

\* Origins and destinations, in micro-degrees: the test's 111 m hop, a hop of no
\* length, one of half a metre, a diagonal, 3.6 km and 4 km legs, and a 111 m hop
\* across the antimeridian.
Routes ==
    { Route(0, 0, 0, 1000),
      Route(0, 0, 0, 0),
      Route(0, 0, 0, 5),
      Route(100, 200, -300, 900),
      Route(0, 0, 0, 32370),
      Route(0, 0, 0, 32375),
      Route(0, 0, 0, 36000),
      Route(0, 179999500, 0, -179999500) }

\* speed_mps
Speeds == {1, 10, 100}

\* start_time - current_time: 5.000001 s and 5 s before, now, the test's 10 s
\* ahead, 30 days ahead and a microsecond more
StartOffsets == {Td(-6, 999999), Td(-5, 0), Td(0, 0), Td(10, 0), Td(2592000, 0), Td(2592000, 1)}

\* ValidationConfig() and the test's ValidationConfig(max_velocity_mps=12.0)
PlannerConfigs == {DefaultConfig, [DefaultConfig EXCEPT !.max_velocity_mps = 120]}

Now0 == Td(0, 0)

NoRequest == [route |-> Route(0, 0, 0, 0), speed_mps |-> 0, start_time |-> Now0]

PlannerIdle ==
    /\ request = NoRequest
    /\ plan = NoPlan
    /\ config = DefaultConfig
    /\ current_time = Now0
    /\ verdict = None

AuthIdle ==
    /\ assessment = [thrust_margin |-> 0, thrust_state |-> None, safe_time |-> 0,
                     endurance_state |-> None, payload_ratio |-> 0, wind_risk |-> None]
    /\ grant = NoGrant

DroneRow(motor_thrust, motor_count, takeoff_weight, max_payload, battery_wh, cruise_power, wind_limit) ==
    [motor_thrust |-> motor_thrust, motor_count |-> motor_count,
     takeoff_weight |-> takeoff_weight, max_payload |-> max_payload,
     battery_wh |-> battery_wh, cruise_power |-> cruise_power, wind_limit |-> wind_limit]

NoDrone == DroneRow(<<>>, <<>>, <<>>, <<>>, <<>>, <<>>, <<>>)

SchedRequest(start_lat, start_lon, end_lat, end_lon, start_time) ==
    [start_lat |-> start_lat, start_lon |-> start_lon, end_lat |-> end_lat,
     end_lon |-> end_lon, start_time |-> start_time]

NoSchedRequest == SchedRequest(0, 0, 0, 0, -1)

NoConflictArgs ==
    [new_path |-> <<>>, new_start |-> -1, new_end |-> -1, existing |-> <<>>, threshold |-> 0]

ConflictIdle ==
    /\ conflict_args = NoConflictArgs
    /\ conflict = <<>>

CapabilityIdle == drone = NoDrone /\ approval = NoApproval

HealthIdle ==
    /\ telemetry = NoTelemetry
    /\ report = NoReport

\* no run under way
NoCallers == << >>

SchedIdle ==
    /\ flight_plans = <<>>
    /\ existing_flights = <<>>
    /\ sched_request = NoSchedRequest
    /\ safe_plan = NoSafePlan
    /\ callers = NoCallers
    /\ ConflictIdle

InitPlanner ==
    /\ \E r \in Routes, v \in Speeds, off \in StartOffsets :
            request = [route |-> r, speed_mps |-> v, start_time |-> TdAdd(Now0, off)]
    /\ config \in PlannerConfigs
    /\ current_time = Now0
    /\ plan = NoPlan
    /\ verdict = None
    /\ AuthIdle
    /\ SchedIdle
    /\ HealthIdle
    /\ CapabilityIdle

\* plan = generate_flight_plan(...)
Generate ==
    /\ plan = NoPlan
    /\ plan' = generate_flight_plan(request.route.start_lat, request.route.start_lon,
                                     request.route.end_lat, request.route.end_lon,
                                     request.start_time, request.speed_mps)
    /\ UNCHANGED <<authVars, request, config, current_time, verdict, schedVars, conflictVars, healthVars, drone, approval>>

\* validate_flight_plan(plan, config, current_time)
Validate ==
    /\ plan # NoPlan
    /\ verdict = None
    /\ verdict' = validate_flight_plan(plan, config, current_time)
    /\ UNCHANGED <<authVars, request, plan, config, current_time, schedVars, conflictVars, healthVars, drone, approval>>

NextPlanner == Generate \/ Validate

SpecPlanner == InitPlanner /\ [][NextPlanner]_vars

(***************************************************************************)
(* validate_flight_plan on a plan supplied by a caller                     *)
(***************************************************************************)
\* A flown leg of 111 m: climb to 30 m in 10 s, descend in 10 s
BaseWaypoints ==
    << Waypoint(0, 0, 0, 0), Waypoint(0, 500, 30000, 10000), Waypoint(0, 1000, 0, 20000) >>

WithNull(wp, field) == [wp EXCEPT !.null = {field}]

\* Waypoint tuples a caller may submit: the base leg and departures from it, each
\* breaking the rules named beside it
SubmittedWaypoints ==
    { BaseWaypoints,
      <<>>,                                                             \* 1.1
      << Waypoint(0, 0, -1000, 0) >>,                                   \* 1.1, 3.1
      [BaseWaypoints EXCEPT ![2] = WithNull(@, "latitude")],            \* 1.2
      [BaseWaypoints EXCEPT ![1].altitude_meters = -1000,
                            ![3].latitude = 90000001],                  \* 2.1, 3.1
      [BaseWaypoints EXCEPT ![2].longitude = -180000001,
                            ![3].time_seconds = 10000],                 \* 2.2, 4.1
      [BaseWaypoints EXCEPT ![2].altitude_meters = -1],                 \* 3.1
      [BaseWaypoints EXCEPT ![2].altitude_meters = 120001],             \* 3.2
      [BaseWaypoints EXCEPT ![2].altitude_meters = 120000],
      [BaseWaypoints EXCEPT ![1].time_seconds = 1000],                  \* 4.4
      [BaseWaypoints EXCEPT ![3].time_seconds = 10000],                 \* 4.1
      [BaseWaypoints EXCEPT ![2].time_seconds = 19901],                 \* 4.5
      [BaseWaypoints EXCEPT ![2].time_seconds = 19900],
      [BaseWaypoints EXCEPT ![2].longitude = 0,
                            ![2].altitude_meters = 0],                  \* 8.1
      [BaseWaypoints EXCEPT ![2].longitude = 0,
                            ![3].longitude = 0],                        \* 8.2
      [BaseWaypoints EXCEPT ![2].longitude = 0,
                            ![2].altitude_meters = 0,
                            ![2].time_seconds = 0],                     \* 4.1, 8.1
      [BaseWaypoints EXCEPT ![2].longitude = 20000,
                            ![3].longitude = 21000],                    \* 5.1, 8.2A
      [BaseWaypoints EXCEPT ![2].altitude_meters = 100000],             \* 3.3
      [BaseWaypoints EXCEPT ![2].altitude_meters = 50000],              \* 5 m/s up
      [BaseWaypoints EXCEPT ![2].altitude_meters = 50001],              \* 3.3
      [BaseWaypoints EXCEPT ![2].longitude = 1079,
                            ![3].longitude = 2000],                     \* under 12 m/s
      [BaseWaypoints EXCEPT ![2].longitude = 1081,
                            ![3].longitude = 2000],                     \* 5.1
      << Waypoint(0, 0, 100000, 0), Waypoint(0, 1000, 0, 20000) >> }    \* descent only

\* end_time - start_time: the final waypoint time, 1 and 2 microseconds less,
\* nothing, and a microsecond more than an hour
SubmittedWindows == {Td(20, 0), Td(19, 999999), Td(19, 999998), Td(0, 0), Td(3600, 1)}

\* start_time - current_time
SubmittedStarts == {Td(10, 0), Td(-6, 999999), Td(2592000, 1)}

\* drone_radius_meters, in dm
SubmittedRadii == {10, 0, 4, 51}

SubmittedIds == {TEST_FLIGHT, <<>>, <<" ", " ">>}

\* The plan-level fields found None
SubmittedNulls == {{}, {"end_time"}}

\* ValidationConfig(); one with the velocity, climb-rate and range limits set
\* (12 m/s, 5 m/s, 2 km); one with only the velocity limit; one with only the
\* climb-rate limit; one with only the descent-rate and acceleration limits
\* (1 m/s, 0.1 m/s2); one with the climb-rate limit and those two
SubmittedConfigs ==
    { DefaultConfig,
      [DefaultConfig EXCEPT !.max_velocity_mps = 120, !.max_climb_rate_mps = 5000,
                            !.max_mission_range_meters = 20000],
      [DefaultConfig EXCEPT !.max_velocity_mps = 120],
      [DefaultConfig EXCEPT !.max_climb_rate_mps = 5000],
      [DefaultConfig EXCEPT !.max_descent_rate_mps = 1000, !.max_acceleration_mps2 = 1],
      [DefaultConfig EXCEPT !.max_climb_rate_mps = 5000, !.max_descent_rate_mps = 1000,
                            !.max_acceleration_mps2 = 1] }

InitValidator ==
    /\ \E id \in SubmittedIds, st \in SubmittedStarts, w \in SubmittedWindows,
          wps \in SubmittedWaypoints, r \in SubmittedRadii, n \in SubmittedNulls :
            plan = [FlightPlan(id, TdAdd(Now0, st), TdAdd(TdAdd(Now0, st), w), wps, r)
                        EXCEPT !.null = n]
    /\ config \in SubmittedConfigs
    /\ current_time = Now0
    /\ request = NoRequest
    /\ verdict = None
    /\ AuthIdle
    /\ SchedIdle
    /\ HealthIdle
    /\ CapabilityIdle

NextValidator == Validate

SpecValidator == InitValidator /\ [][NextValidator]_vars

(***************************************************************************)
(* One call of auto_assign_authorization                                   *)
(***************************************************************************)
\* The arguments of one call, drawn from the sets above.
InitAuth ==
    /\ assessment \in [thrust_margin : ThrustMargins, thrust_state : ThrustStates,
                       safe_time : SafeTimes, endurance_state : EnduranceStates,
                       payload_ratio : PayloadRatios, wind_risk : WindRisks]
    /\ grant = NoGrant
    /\ PlannerIdle
    /\ SchedIdle
    /\ HealthIdle
    /\ CapabilityIdle

AutoAssign ==
    /\ grant = NoGrant
    /\ grant' = auto_assign_authorization(
                    assessment.thrust_margin, assessment.thrust_state,
                    assessment.safe_time, assessment.endurance_state,
                    assessment.payload_ratio, assessment.wind_risk)
    /\ UNCHANGED <<assessment, plannerVars, schedVars, conflictVars, healthVars, drone, approval>>

NextAuth == AutoAssign

SpecAuth == InitAuth /\ [][NextAuth]_vars

\* C8: whenever thrust_state is not SAFE or endurance_state is not PASS, the grant
\* is exactly (RESTRICTED, 1.0 km, 60 m), whatever the other four inputs are.
C8_HardFloor ==
    (grant # NoGrant /\ (assessment.thrust_state # "SAFE" \/ assessment.endurance_state # "PASS"))
        => grant = <<"RESTRICTED", 10, 60>>

\* A gated call whose other inputs would have earned the largest grant.
C8_Witness ==
    /\ grant = <<"RESTRICTED", 10, 60>>
    /\ assessment.thrust_state = "SAFE"
    /\ assessment.endurance_state = "LIMITED"
    /\ assessment.wind_risk = "LOW"
    /\ assessment.safe_time = 4000
    /\ assessment.thrust_margin = 250

(***************************************************************************)
(* Dropdown.py run as a script, one run after another on the same table    *)
(***************************************************************************)
MaxFlights == 5

\* a diagonal of 236 m, which a lateral offset slides along itself
DiagonalRoute == <<0, 0, 1500, 1500>>

\* 111 m due east, which a lateral offset moves 33 m north per try
EastRoute == <<0, 0, 0, 1000>>

SchedRoutes == {DiagonalRoute, EastRoute}

\* 16:10:00 and 16:15:00.5, in half seconds after 16:10:00
SchedStarts == {0, 601}

SchedRequests ==
    {SchedRequest(r[1], r[2], r[3], r[4], t) : r \in SchedRoutes, t \in SchedStarts}

DRONE_ID == "XYZ123"

InitSched ==
    /\ SchedIdle
    /\ PlannerIdle
    /\ AuthIdle
    /\ HealthIdle
    /\ CapabilityIdle

\* __main__: load the scheduled flights, ask for a safe plan, save it if there is one
RunScheduler(r) ==
    /\ Len(flight_plans) < MaxFlights
    /\ LET loaded == LoadScheduled(flight_plans)
           result == generate_safe_plan(r, loaded)
       IN  /\ existing_flights' = loaded
           /\ sched_request' = r
           /\ safe_plan' = result
           /\ flight_plans' =
                  IF result.path # <<>>
                  THEN Append(flight_plans,
                              FlightRow(DRONE_ID, result.path, result.start, result.end))
                  ELSE flight_plans
    /\ UNCHANGED <<authVars, plannerVars, conflictVars, healthVars, drone, approval, callers>>

NextSched == \E r \in SchedRequests : RunScheduler(r)

SpecSched == InitSched /\ [][NextSched]_vars

(***************************************************************************)
(* Dropdown.py run by several callers at once on the same table.  Each run *)
(* is three steps: the SELECT of step 1, generate_safe_plan on what it     *)
(* returned, and the INSERT of save_flight_plan.                           *)
(***************************************************************************)
NumCallers == 2

Callers == 1..NumCallers

Caller(pc, r, existing, result) ==
    [pc |-> pc, request |-> r, existing_flights |-> existing, safe_plan |-> result]

InitConcurrent ==
    /\ flight_plans = <<>>
    /\ callers \in [Callers -> {Caller("load", r, <<>>, NoSafePlan) : r \in SchedRequests}]
    /\ existing_flights = <<>>
    /\ sched_request = NoSchedRequest
    /\ safe_plan = NoSafePlan
    /\ ConflictIdle
    /\ PlannerIdle
    /\ AuthIdle
    /\ HealthIdle
    /\ CapabilityIdle

ConcurrentUnchanged ==
    UNCHANGED <<authVars, plannerVars, conflictVars, healthVars, drone, approval,
                existing_flights, sched_request, safe_plan>>

\* Step 1: load existing flights
Load(c) ==
    /\ callers[c].pc = "load"
    /\ callers' = [callers EXCEPT ![c].pc = "plan",
                                  ![c].existing_flights = LoadScheduled(flight_plans)]
    /\ UNCHANGED flight_plans
    /\ ConcurrentUnchanged

\* Step 2: request new flight plan
Plan(c) ==
    /\ callers[c].pc = "plan"
    /\ callers' = [callers EXCEPT ![c].pc = "save",
                                  ![c].safe_plan = generate_safe_plan(callers[c].request,
                                                       callers[c].existing_flights)]
    /\ UNCHANGED flight_plans
    /\ ConcurrentUnchanged

\* if path: save_flight_plan(drone_id, path, safe_start, safe_end); the caller's
\* number stands for its drone_id
Save(c) ==
    /\ callers[c].pc = "save"
    /\ flight_plans' =
          IF callers[c].safe_plan.path # <<>>
          THEN Append(flight_plans,
                      FlightRow(c, callers[c].safe_plan.path, callers[c].safe_plan.start,
                                callers[c].safe_plan.end))
          ELSE flight_plans
    /\ callers' = [callers EXCEPT ![c].pc = "done"]
    /\ ConcurrentUnchanged

NextConcurrent == \E c \in Callers : Load(c) \/ Plan(c) \/ Save(c)

SpecConcurrent == InitConcurrent /\ [][NextConcurrent]_vars

(***************************************************************************)
(* One call of is_conflicting                                              *)
(***************************************************************************)
\* starts at which the windows of the two routes overlap, touch and follow
ConflictStarts == {0, 1, 50, 70, 90}

ConflictRequests ==
    {SchedRequest(r[1], r[2], r[3], r[4], t) : r \in SchedRoutes, t \in ConflictStarts}

\* plans as generate_safe_plan hands them over: without and with a lateral offset
NewFlights == {Candidate(r, k) : r \in ConflictRequests, k \in {0, 1}}

ExistingRows ==
    {FlightRow(DRONE_ID, Candidate(r, 0).path, Candidate(r, 0).start, Candidate(r, 0).end) :
        r \in {q \in ConflictRequests : q.start_time \in {0, 50}}}

ExistingLists ==
    {<<>>} \cup {<<a>> : a \in ExistingRows}
           \cup {<<a, b>> : a \in ExistingRows, b \in ExistingRows}

Thresholds == {30, DEFAULT_THRESHOLD}

InitConflict ==
    /\ \E n \in NewFlights, e \in ExistingLists, th \in Thresholds :
            conflict_args = [new_path |-> n.path, new_start |-> n.start, new_end |-> n.end,
                             existing |-> e, threshold |-> th]
    /\ conflict = <<>>
    /\ flight_plans = <<>>
    /\ existing_flights = <<>>
    /\ sched_request = NoSchedRequest
    /\ safe_plan = NoSafePlan
    /\ callers = NoCallers
    /\ PlannerIdle
    /\ AuthIdle
    /\ HealthIdle
    /\ CapabilityIdle

CheckConflict ==
    /\ conflict = <<>>
    /\ conflict' = << is_conflicting(conflict_args.new_path, conflict_args.new_start,
                                     conflict_args.new_end, conflict_args.existing,
                                     conflict_args.threshold) >>
    /\ UNCHANGED <<authVars, plannerVars, schedVars, conflict_args, healthVars, drone, approval>>

NextConflict == CheckConflict

SpecConflict == InitConflict /\ [][NextConflict]_vars

(***************************************************************************)
(* One call of assess_flight_health on a plan the planner generated        *)
(***************************************************************************)
HealthStart == Td(100, 0)

\* an approved plan whose window stays open for 50 s after its last waypoint
LongWindowPlan ==
    FlightPlan(TEST_FLIGHT, HealthStart, TdAdd(HealthStart, Td(60, 0)),
               << Waypoint(0, 0, 0, 0), Waypoint(0, 500, 30000, 10000) >>, 10)

\* 111 m and 334 m due east at 10 m/s, a flight of no length, and the plan above
HealthPlans ==
    {generate_flight_plan(0, 0, 0, 1000, HealthStart, 10),
     generate_flight_plan(0, 0, 0, 3000, HealthStart, 10),
     generate_flight_plan(0, 0, 0, 0, HealthStart, 10),
     LongWindowPlan}

PlanDuration(p) == TdSub(p.end_time, p.start_time)

LastWaypointTime(p) == TdOfMs(p.waypoints[Len(p.waypoints)].time_seconds)

\* telemetry timestamps, counted from the start of the plan: before it, at it, inside
\* a segment, at the last waypoint, at the end, and up to and past 30 s after the end
ElapsedChoices(p) ==
    {Td(-1, 999999), Td(0, 0), Td(3, 0), Td(7, 500000), LastWaypointTime(p), PlanDuration(p),
     TdAdd(PlanDuration(p), Td(0, 1)), TdAdd(PlanDuration(p), Td(10, 0)),
     TdAdd(PlanDuration(p), Td(30, 0)), TdAdd(PlanDuration(p), Td(30, 1))}

\* current_time - telemetry.timestamp
AgeChoices == {Td(-1, 999999), Td(0, 0), Td(10, 0), Td(10, 1), Td(30, 0), Td(30, 1)}

TelemetryLatitudes == {0, 89, 91}

TelemetryLongitudes == {0, 500, 1000, 3000}

TelemetryAltitudes == {0, 5000, 5001, 9000}

\* Where the plan puts the drone at an instant of its window: on the straight line
\* between the two waypoints around that instant, and at the last waypoint after it.
PlannedPosition(p, elapsed) ==
    LET wps == p.waypoints
        ahead == {i \in 2..Len(wps) : TdLE(elapsed, TdOfMs(wps[i].time_seconds))}
        to == wps[MinOf(ahead)]
        from == wps[MinOf(ahead) - 1]
        span == to.time_seconds - from.time_seconds
        into == MsOfTd(elapsed) - from.time_seconds
        between(a, b) == IF span = 0 THEN a
                         ELSE IF b >= a THEN a + ((b - a) * into) \div span
                         ELSE a - ((a - b) * into) \div span
    IN  IF ahead = {}
        THEN << wps[Len(wps)].latitude, wps[Len(wps)].longitude,
                wps[Len(wps)].altitude_meters >>
        ELSE << between(from.latitude, to.latitude), between(from.longitude, to.longitude),
                between(from.altitude_meters, to.altitude_meters) >>

\* positions a drone may report: off the plan in all three axes, or exactly on it
TelemetryPositions(p, elapsed) ==
    (TelemetryLatitudes \X TelemetryLongitudes \X TelemetryAltitudes)
        \cup (IF TdLE(Td(0, 0), elapsed) THEN {PlannedPosition(p, elapsed)} ELSE {})

InitHealth ==
    /\ plan \in HealthPlans
    /\ \E e \in ElapsedChoices(plan) : \E pos \in TelemetryPositions(plan, e) :
            telemetry = TelemetryUpdate(plan.flight_id, TdAdd(plan.start_time, e),
                                        pos[1], pos[2], pos[3])
    /\ \E age \in AgeChoices : current_time = TdAdd(telemetry.timestamp, age)
    /\ report = NoReport
    /\ request = NoRequest
    /\ config = DefaultConfig
    /\ verdict = None
    /\ AuthIdle
    /\ SchedIdle
    /\ CapabilityIdle

Assess ==
    /\ report = NoReport
    /\ report' = assess_flight_health(plan, telemetry, current_time)
    /\ UNCHANGED <<authVars, plannerVars, schedVars, conflictVars, telemetry, drone, approval>>

NextHealth == Assess

SpecHealth == InitHealth /\ [][NextHealth]_vars

(***************************************************************************)
(* One call of compute_capability on a row of the drones table.  The       *)
(* values are chosen so that every quotient is a whole number of           *)
(* hundredths or lies more than a hundredth away from every threshold.     *)
(***************************************************************************)
MotorThrusts == {<<>>, <<0>>, <<90>>, <<110>>, <<150>>}

MotorCounts == {<<>>, <<0>>, <<4>>, <<6>>}

TakeoffWeights == {<<>>, <<0>>, <<200>>, <<250>>, <<-250>>}

MaxPayloads == {<<>>, <<0>>, <<170>>, <<215>>}

BatteryCapacities == {<<>>, <<0>>, <<40>>, <<80>>, <<100>>, <<200>>}

CruisePowers == {<<>>, <<0>>, <<150>>, <<225>>}

WindLimits == {<<>>, <<0>>, <<14>>, <<15>>, <<24>>, <<25>>}

InitCapability ==
    /\ drone \in [motor_thrust : MotorThrusts, motor_count : MotorCounts,
                   takeoff_weight : TakeoffWeights, max_payload : MaxPayloads,
                   battery_wh : BatteryCapacities, cruise_power : CruisePowers,
                   wind_limit : WindLimits]
    /\ approval = NoApproval
    /\ AuthIdle
    /\ PlannerIdle
    /\ SchedIdle
    /\ HealthIdle

ComputeCapability ==
    /\ assessment = NoAssessment
    /\ assessment' = compute_capability(drone.motor_thrust, drone.motor_count,
                                        drone.takeoff_weight, drone.max_payload,
                                        drone.battery_wh, drone.cruise_power,
                                        drone.wind_limit)
    /\ UNCHANGED <<grant, plannerVars, schedVars, conflictVars, healthVars, drone, approval>>

NextCapability == ComputeCapability

SpecCapability == InitCapability /\ [][NextCapability]_vars

(***************************************************************************)
(* actions/approve.py, approve_drone with automatic assignment: the row's  *)
(* capability is computed and handed to auto_assign_authorization.  When   *)
(* the division raises, nothing is granted.                                *)
(***************************************************************************)
ApproveDrone ==
    /\ assessment = NoAssessment
    /\ LET computed == compute_capability(drone.motor_thrust, drone.motor_count,
                                          drone.takeoff_weight, drone.max_payload,
                                          drone.battery_wh, drone.cruise_power,
                                          drone.wind_limit)
       IN  /\ assessment' = computed
           /\ grant' = IF computed = ZeroDivisionError THEN NoGrant
                       ELSE auto_assign_authorization(
                                computed.thrust_margin, computed.thrust_state,
                                computed.safe_time, computed.endurance_state,
                                computed.payload_ratio, computed.wind_risk)
    /\ UNCHANGED <<plannerVars, schedVars, conflictVars, healthVars, drone, approval>>

NextApproveDrone == ApproveDrone

SpecApproveDrone == InitCapability /\ [][NextApproveDrone]_vars

(***************************************************************************)
(* One call of handle_flight_request                                       *)
(***************************************************************************)
\* the planner's start offsets, and an hour before and after now
ApprovalStartOffsets == StartOffsets \cup {Td(-3600, 0), Td(3600, 0)}

InitApproval ==
    /\ \E r \in Routes, v \in Speeds, off \in ApprovalStartOffsets :
            request = [route |-> r, speed_mps |-> v, start_time |-> TdAdd(Now0, off)]
    /\ config = DefaultConfig
    /\ current_time = Now0
    /\ plan = NoPlan
    /\ verdict = None
    /\ approval = NoApproval
    /\ drone = NoDrone
    /\ AuthIdle
    /\ SchedIdle
    /\ HealthIdle

HandleFlightRequest ==
    /\ approval = NoApproval
    /\ approval' = handle_flight_request(request, current_time)
    /\ UNCHANGED <<authVars, plannerVars, schedVars, conflictVars, healthVars, drone>>

NextApproval == HandleFlightRequest

SpecApproval == InitApproval /\ [][NextApproval]_vars

(***************************************************************************)
(* Claims on generate_flight_plan followed by validate_flight_plan         *)
(***************************************************************************)
\* The request's minimum_flight_time, distance / speed, in ms
RequestFlightTime ==
    MinimumFlightTime(request.route.start_lat, request.route.start_lon,
                      request.route.end_lat, request.route.end_lon, request.speed_mps)

\* start_time is at most 5 s before and at most 30 days after current_time
StartInTolerance ==
    /\ TdLE(Td(-5, 0), TdSub(request.start_time, current_time))
    /\ TdLE(TdSub(request.start_time, current_time), Td(30 * 86400, 0))

\* max_velocity_mps is unset, or set to at least 1.2 times the requested speed
VelocityLimitAboveSpeed ==
    config.max_velocity_mps = NoLimit \/ config.max_velocity_mps >= 12 * request.speed_mps

\* The longitudes of origin and destination differ by more than half a turn
CrossesAntimeridian ==
    2 * Abs(request.route.end_lon - request.route.start_lon) > FULL_TURN

C9_GeneratedPlanShape ==
    plan # NoPlan =>
        /\ plan.waypoints[1].time_seconds = 0
        /\ \A i \in Segments(plan) :
               plan.waypoints[i].time_seconds < plan.waypoints[i + 1].time_seconds
        /\ plan.waypoints[Len(plan.waypoints)].altitude_meters = 0

(***************************************************************************)
(* Claims on validate_flight_plan                                          *)
(***************************************************************************)
StructurallySound(p) ==
    /\ p.null = {}
    /\ Len(p.waypoints) >= 2
    /\ \A i \in 1..Len(p.waypoints) : p.waypoints[i].null = {}

IdentifierSound(p) == \E k \in 1..Len(p.flight_id) : p.flight_id[k] # " "

GeographicallySound(p) ==
    \A i \in 1..Len(p.waypoints) :
        /\ -90000000 <= p.waypoints[i].latitude /\ p.waypoints[i].latitude <= 90000000
        /\ -180000000 <= p.waypoints[i].longitude /\ p.waypoints[i].longitude <= 180000000

AltitudeSound(p, c) ==
    \A i \in 1..Len(p.waypoints) :
        0 <= p.waypoints[i].altitude_meters
            /\ p.waypoints[i].altitude_meters <= c.max_altitude_meters

RadiusSound(p, c) ==
    /\ p.drone_radius_meters > 0
    /\ c.min_drone_radius_meters <= p.drone_radius_meters
    /\ p.drone_radius_meters <= c.max_drone_radius_meters

\* Waypoint times, the authorization window and the start time
TemporallySound(p, c, now) ==
    LET window == TdSub(p.end_time, p.start_time)
    IN  /\ p.waypoints[1].time_seconds = 0
        /\ \A i \in Segments(p) :
               /\ p.waypoints[i].time_seconds < p.waypoints[i + 1].time_seconds
               /\ p.waypoints[i + 1].time_seconds - p.waypoints[i].time_seconds
                      >= c.min_time_delta_seconds
        /\ TdLT(p.start_time, p.end_time)
        /\ TdLE(TdOfMs(p.waypoints[Len(p.waypoints)].time_seconds), TdAdd(window, Td(0, 1)))
        /\ TdLE(TdSub(now, TdOfMs(c.start_time_tolerance_seconds)), p.start_time)
        /\ TdLE(p.start_time, TdAdd(now, Td(c.max_advance_booking_days * 86400, 0)))
        /\ TdLE(window, TdOfMs(c.max_flight_duration_seconds))

\* No repeated point, a path of positive length, within the range if one is set
GeometricallySound(p, c) ==
    /\ \A i \in Segments(p) :
           \/ p.waypoints[i].latitude # p.waypoints[i + 1].latitude
           \/ p.waypoints[i].longitude # p.waypoints[i + 1].longitude
           \/ p.waypoints[i].altitude_meters # p.waypoints[i + 1].altitude_meters
    /\ \E i \in Segments(p) :
           \/ p.waypoints[i].latitude # p.waypoints[i + 1].latitude
           \/ p.waypoints[i].longitude # p.waypoints[i + 1].longitude

WithinRange(p, c) ==
    \/ c.max_mission_range_meters = NoLimit
    \/ calculate_total_path_length(p.waypoints) <= c.max_mission_range_meters

\* C2: a plan that validate_flight_plan accepts has at least 2 waypoints, a
\* non-blank flight id, coordinates and altitudes within bounds, a drone radius
\* within bounds, waypoint times from 0 strictly increasing by at least the minimum
\* delta, start before end, a final waypoint time within the window plus 1e-6 s, a
\* start time within tolerance and horizon, a window within the maximum duration,
\* no repeated consecutive waypoint and a horizontal path of positive length.
C2_ValidatorSoundness ==
    verdict = "OK" =>
        /\ StructurallySound(plan)
        /\ IdentifierSound(plan)
        /\ GeographicallySound(plan)
        /\ AltitudeSound(plan, config)
        /\ RadiusSound(plan, config)
        /\ TemporallySound(plan, config, current_time)
        /\ GeometricallySound(plan, config)

\* An accepted plan whose window is a microsecond short of its final waypoint time
C2_Witness ==
    /\ verdict = "OK"
    /\ request = NoRequest
    /\ TdSub(plan.end_time, plan.start_time) = Td(19, 999999)
    /\ plan.waypoints[2].altitude_meters = 120000

\* Every segment within the velocity and climb-rate limits that are set
PerformanceSound(p, c) ==
    \A i \in Segments(p) :
        /\ \/ c.max_velocity_mps = NoLimit
           \/ ~VelocityExceeds(p.waypoints[i], p.waypoints[i + 1], c.max_velocity_mps)
        /\ \/ c.max_climb_rate_mps = NoLimit
           \/ p.waypoints[i + 1].altitude_meters <= p.waypoints[i].altitude_meters
           \/ ~VerticalRateExceeds(p.waypoints[i], p.waypoints[i + 1], c.max_climb_rate_mps)

\* The rule groups in the order of the specification: 1 structural, 2 identifier,
\* 3 geographic, 4 altitude, 5 drone radius, 6 temporal, 7 path geometry,
\* 8 optional performance; 9 stands for no violation.
GroupOfRule(rule) ==
    CASE rule \in {"1.1", "1.2"} -> 1
      [] rule = "7.1" -> 2
      [] rule \in {"2.1", "2.2"} -> 3
      [] rule \in {"3.1", "3.2"} -> 4
      [] rule \in {"6.1", "6.2", "6.3"} -> 5
      [] rule \in {"4.1", "4.2", "4.3", "4.4", "4.5", "9.1", "9.2", "9.3", "10.1"} -> 6
      [] rule \in {"8.1", "8.2", "8.2A"} -> 7
      [] rule \in {"5.1", "3.3"} -> 8
      [] rule = "OK" -> 9

\* The groups of which the plan breaks a rule.  A later group reads what an
\* earlier one establishes, so a group is asked only of a plan that is sound in
\* the groups it reads.
ViolatedGroups(p, c, now) ==
    IF ~StructurallySound(p) THEN
        {1} \cup (IF \E i \in 1..Len(p.waypoints) : p.waypoints[i].altitude_meters < 0
                  THEN {4} ELSE {})
    ELSE
        (IF IdentifierSound(p) THEN {} ELSE {2})
        \cup (IF GeographicallySound(p) THEN {} ELSE {3})
        \cup (IF AltitudeSound(p, c) THEN {} ELSE {4})
        \cup (IF RadiusSound(p, c) THEN {} ELSE {5})
        \cup (IF TemporallySound(p, c, now) THEN {} ELSE {6})
        \cup (IF GeometricallySound(p, c) THEN {} ELSE {7})
        \cup (IF GeographicallySound(p) /\ ~WithinRange(p, c) THEN {7} ELSE {})
        \cup (IF /\ GeographicallySound(p)
                 /\ TemporallySound(p, c, now)
                 /\ ~PerformanceSound(p, c) THEN {8} ELSE {})

\* C3: the violation raised is of the earliest group the plan violates, in the
\* order structural, identifier, geographic, altitude, drone radius, temporal, path
\* geometry, performance; a plan with fewer than 2 waypoints and a negative
\* altitude fails with Rule 1.1.
C3_FailFastGroupOrder ==
    verdict # None =>
        LET violated == ViolatedGroups(plan, config, current_time)
        IN  /\ GroupOfRule(verdict) = (IF violated = {} THEN 9 ELSE MinOf(violated))
            /\ (Len(plan.waypoints) < 2 /\ plan.null = {}) => verdict = "1.1"

\* The specification's example: one waypoint, of negative altitude
C3_Witness ==
    /\ verdict = "1.1"
    /\ Len(plan.waypoints) = 1
    /\ plan.waypoints[1].altitude_meters < 0
    /\ ViolatedGroups(plan, config, current_time) = {1, 4}

\* A plan that breaks rules of three groups and fails on the earliest
C3_WitnessSeveral ==
    /\ verdict = "2.2"
    /\ {3, 5, 6} \subseteq ViolatedGroups(plan, config, current_time)

(***************************************************************************)
(* Claims on is_conflicting and generate_safe_plan                         *)
(***************************************************************************)
\* the windows [s1, e1] and [s2, e2] share more than an endpoint
WindowsOverlap(s1, e1, s2, e2) == s1 < e2 /\ e1 > s2

\* some waypoint of path1 is less than metres from some waypoint of path2
PathsWithin(path1, path2, metres) ==
    \E a \in 1..Len(path1), b \in 1..Len(path2) :
        geodesic(path1[a].lat, path1[a].lon, path2[b].lat, path2[b].lon) < metres * 10

\* some flight of the list overlaps the window and comes within metres of the path
ConflictsWith(path, start, end, flights, metres) ==
    \E f \in 1..Len(flights) :
        /\ WindowsOverlap(start, end, flights[f].start_time, flights[f].end_time)
        /\ PathsWithin(path, flights[f].path_json, metres)

\* C4: a plan that generate_safe_plan returns has no existing flight whose window
\* overlaps [start, end] and that has a waypoint closer than 40 m to one of its own.
C4_SafePlanNeverConflicts ==
    safe_plan.path # <<>> =>
        ~ConflictsWith(safe_plan.path, safe_plan.start, safe_plan.end, existing_flights, 40)

\* a plan was returned although the request itself, as asked, conflicts
C4_Witness ==
    /\ safe_plan.path # <<>>
    /\ existing_flights # <<>>
    /\ CandidateConflicts(sched_request, 0, existing_flights)

\* C5: is_conflicting is true exactly when some existing flight overlaps the new
\* window (new_start < existing_end and new_end > existing_start) and has a waypoint
\* less than threshold metres from a waypoint of the new path; so identical paths
\* with overlapping windows conflict, and windows that do not overlap, touching
\* ones included, never do.
C5_ConflictIffOverlapAndNear ==
    conflict # <<>> =>
        LET a == conflict_args
        IN  /\ conflict[1] = ConflictsWith(a.new_path, a.new_start, a.new_end,
                                           a.existing, a.threshold)
            /\ (\E f \in 1..Len(a.existing) :
                    /\ a.existing[f].path_json = a.new_path
                    /\ WindowsOverlap(a.new_start, a.new_end,
                                      a.existing[f].start_time, a.existing[f].end_time))
                  => conflict[1]
            /\ (\A f \in 1..Len(a.existing) :
                    \/ a.new_start >= a.existing[f].end_time
                    \/ a.new_end <= a.existing[f].start_time)
                  => ~conflict[1]

\* the new window starts at the very instant a flight on the same path ends
C5_Witness ==
    /\ conflict = << FALSE >>
    /\ \E f \in 1..Len(conflict_args.existing) :
          /\ conflict_args.new_start = conflict_args.existing[f].end_time
          /\ PathsWithin(conflict_args.new_path, conflict_args.existing[f].path_json,
                         conflict_args.threshold)

\* C10: generate_safe_plan evaluates at most 8 candidates, the 5 offsets before the
\* 3 delays, and returns (None, None, None) exactly when all 8 of them conflict with
\* the existing flights.
C10_EightCandidates ==
    sched_request # NoSchedRequest =>
        /\ safe_plan.evaluated <= 8
        /\ safe_plan.path = <<>> <=>
               \A k \in 0..7 : CandidateConflicts(sched_request, k, existing_flights)
        /\ safe_plan.path # <<>> =>
               /\ \A k \in 0..(safe_plan.evaluated - 2) :
                      CandidateConflicts(sched_request, k, existing_flights)
               /\ safe_plan.start =
                      IF safe_plan.evaluated <= 5 THEN sched_request.start_time
                      ELSE sched_request.start_time + Seconds(300 * (safe_plan.evaluated - 5))

\* all eight candidates were evaluated and none was free
C10_Witness ==
    /\ sched_request # NoSchedRequest
    /\ safe_plan.path = <<>>
    /\ safe_plan.evaluated = 8

\* a delayed plan was returned after the five offsets had failed
C10_WitnessDelay ==
    /\ safe_plan.path # <<>>
    /\ safe_plan.evaluated > 5

(***************************************************************************)
(* Claims on assess_flight_health                                          *)
(***************************************************************************)
TelemetryAge == TdSub(current_time, telemetry.timestamp)

TelemetryElapsed == TdSub(telemetry.timestamp, plan.start_time)

\* older than 30 s, from the future, before the start, or more than 30 s past the end
OutsideWindow ==
    \/ TdLT(Td(30, 0), TelemetryAge)
    \/ TdLT(TelemetryAge, Td(0, 0))
    \/ TdLT(TelemetryElapsed, Td(0, 0))
    \/ TdLT(TdAdd(PlanDuration(plan), Td(30, 0)), TelemetryElapsed)

\* C6: the report is LOST exactly when the telemetry is older than 30 s or from the
\* future, or its elapsed time is negative or exceeds the plan duration by more than
\* 30 s; every other update, those up to 30 s past the end included, is classified
\* OFF_TRACK, DELAYED or ON_TRACK.
C6_LostIffOutsideWindow ==
    report # NoReport =>
        /\ report.status = "LOST" <=> OutsideWindow
        /\ ~OutsideWindow => report.status \in {"OFF_TRACK", "DELAYED", "ON_TRACK"}

\* C7: a report that is not LOST is OFF_TRACK whenever the position error exceeds
\* 10 m or the altitude error 5 m, whatever the time error; DELAYED when both are
\* within tolerance and the time error exceeds 10 s; ON_TRACK when all three are
\* within tolerance, an error equal to its tolerance counting as within.
C7_SpatialBeforeTiming ==
    (report # NoReport /\ report.status # "LOST") =>
        LET spatial == \/ report.position_error_meters > 100
                       \/ report.altitude_error_meters > 5000
            late == TdLT(Td(10, 0), report.time_error_seconds)
        IN  report.status = IF spatial THEN "OFF_TRACK"
                            ELSE IF late THEN "DELAYED"
                            ELSE "ON_TRACK"

\* off the route and late at once: reported OFF_TRACK
C7_Witness ==
    /\ report.status = "OFF_TRACK"
    /\ report.position_error_meters > 100
    /\ TdLT(Td(10, 0), report.time_error_seconds)

\* altitude and time errors exactly at their tolerances: reported ON_TRACK
C7_WitnessBoundary ==
    /\ report.status = "ON_TRACK"
    /\ report.altitude_error_meters = 5000
    /\ report.time_error_seconds = Td(10, 0)

\* on the route and late: reported DELAYED
C7_WitnessDelayed ==
    /\ report.status = "DELAYED"
    /\ report.position_error_meters <= 100
    /\ report.altitude_error_meters <= 5000

(***************************************************************************)
(* Claims on compute_capability                                            *)
(***************************************************************************)
\* the value of a column, or the stated default when it is missing or zero
Given(x, default) == IF x \in {<<>>, <<0>>} THEN default ELSE x[1]

Assessed == assessment # NoAssessment

\* C11: thrust_margin = (motor_thrust * motor_count) / takeoff_weight; it is UNSAFE
\* below 1.8, MARGINAL from 1.8 to 2.2 inclusive and SAFE above 2.2; thrust 1.0 with
\* 4 motors at 2.5 kg gives 1.6 and UNSAFE.
C11_ThrustMargin ==
    Assessed =>
        LET thrust == Given(drone.motor_thrust, 100)
            count == Given(drone.motor_count, 4)
            weight == Given(drone.takeoff_weight, 250)
            m == assessment.thrust_margin
        IN  /\ m * weight = thrust * count * 100
            /\ assessment.thrust_state = "UNSAFE" <=> m < 180
            /\ assessment.thrust_state = "MARGINAL" <=> (180 <= m /\ m <= 220)
            /\ assessment.thrust_state = "SAFE" <=> m > 220
            /\ (thrust = 100 /\ count = 4 /\ weight = 250) =>
                   (m = 160 /\ assessment.thrust_state = "UNSAFE")

\* a margin of exactly 1.8 (0.9 x 4 / 2.0) is MARGINAL
C11_Witness ==
    /\ assessment.thrust_margin = 180
    /\ assessment.thrust_state = "MARGINAL"
    /\ drone.motor_thrust = <<90>>

\* a margin of exactly 2.2 (1.1 x 4 / 2.0) is MARGINAL
C11_WitnessUpper ==
    /\ assessment.thrust_margin = 220
    /\ assessment.thrust_state = "MARGINAL"

\* C12: safe_time = 0.75 * (battery_wh / cruise_power) * 60 minutes; endurance is FAIL
\* below 10, LIMITED from 10 to 15 inclusive and PASS above 15; 50 Wh at 200 W gives
\* 11.25 and LIMITED.
C12_SafeTime ==
    Assessed =>
        LET battery == Given(drone.battery_wh, 50)
            power == Given(drone.cruise_power, 200)
            t == assessment.safe_time
        IN  /\ t * power = 75 * battery * 60
            /\ assessment.endurance_state = "FAIL" <=> t < 1000
            /\ assessment.endurance_state = "LIMITED" <=> (1000 <= t /\ t <= 1500)
            /\ assessment.endurance_state = "PASS" <=> t > 1500
            /\ (battery = 50 /\ power = 200) =>
                   (t = 1125 /\ assessment.endurance_state = "LIMITED")

\* exactly 15 minutes (50 Wh at 150 W) is LIMITED
C12_Witness ==
    /\ assessment.safe_time = 1500
    /\ assessment.endurance_state = "LIMITED"
    /\ drone.cruise_power = <<150>>

\* exactly 10 minutes (50 Wh at 225 W) is LIMITED
C12_WitnessLower ==
    /\ assessment.safe_time = 1000
    /\ assessment.endurance_state = "LIMITED"

AllMissingOrZero ==
    \A f \in DOMAIN drone : drone[f] \in {<<>>, <<0>>}

\* C13: compute_capability never divides by zero: a missing or zero input is replaced
\* by its default (1.0, 4, 2.5, 0.3, 50, 200, 10) before anything is computed, and with
\* every input missing or zero the result is 1.6 / UNSAFE, 11.25 / LIMITED, 0.12, HIGH.
C13_TotalWithDefaults ==
    Assessed =>
        /\ assessment # ZeroDivisionError
        /\ assessment.thrust_state \in {"UNSAFE", "MARGINAL", "SAFE"}
        /\ assessment.endurance_state \in {"FAIL", "LIMITED", "PASS"}
        /\ assessment.wind_risk \in {"HIGH", "MEDIUM", "LOW"}
        /\ assessment =
              compute_capability(<< Given(drone.motor_thrust, 100) >>,
                                 << Given(drone.motor_count, 4) >>,
                                 << Given(drone.takeoff_weight, 250) >>,
                                 << Given(drone.max_payload, 30) >>,
                                 << Given(drone.battery_wh, 50) >>,
                                 << Given(drone.cruise_power, 200) >>,
                                 << Given(drone.wind_limit, 10) >>)
        /\ AllMissingOrZero =>
              assessment = Assessment(160, "UNSAFE", 1125, "LIMITED", 12, "HIGH")

\* a row of zeros and gaps, a zero takeoff weight and cruise power among them
C13_Witness ==
    /\ Assessed
    /\ AllMissingOrZero
    /\ drone.takeoff_weight = <<0>>
    /\ drone.cruise_power = <<0>>
    /\ drone.motor_thrust = <<>>

(***************************************************************************)
(* Claims on auto_assign_authorization past the hard gate                  *)
(***************************************************************************)
PastHardGate ==
    /\ grant # NoGrant
    /\ assessment.thrust_state = "SAFE"
    /\ assessment.endurance_state = "PASS"

\* C14: with thrust_state SAFE and endurance_state PASS the max distance is
\* round(base * p * b, 1): base 1.0 below 10 minutes, 3.0 below 20, 8.0 below 40 and
\* 15.0 otherwise; p = 0.5 if payload_ratio > 0.85, else 1; b = 1.2 if
\* thrust_margin > 1.8, else 1.
C14_MaxDistance ==
    PastHardGate =>
        LET base == IF assessment.safe_time < 1000 THEN 10
                    ELSE IF assessment.safe_time < 2000 THEN 30
                    ELSE IF assessment.safe_time < 4000 THEN 80
                    ELSE 150
            p == IF assessment.payload_ratio > 85 THEN 5 ELSE 10
            b == IF assessment.thrust_margin > 180 THEN 12 ELSE 10
        IN  grant[2] * 100 = base * p * b

\* a payload ratio of exactly 0.85 and a margin of exactly 1.8: neither factor applies
C14_Witness ==
    /\ PastHardGate
    /\ assessment.payload_ratio = 85
    /\ assessment.thrust_margin = 180
    /\ assessment.safe_time = 2000
    /\ grant[2] = 80

\* penalty and bonus together on the top tier: 15.0 * 0.5 * 1.2 = 9.0
C14_WitnessBoth ==
    /\ PastHardGate
    /\ assessment.payload_ratio = 86
    /\ assessment.thrust_margin = 250
    /\ assessment.safe_time = 4000
    /\ grant[2] = 90

\* C15: every result pairs airspace and max altitude as (RESTRICTED, 60),
\* (CONTROLLED, 90) or (OPEN, 120), on the hard-gate path too; past the hard gate
\* the airspace is RESTRICTED for HIGH wind risk, CONTROLLED for MEDIUM, OPEN for LOW.
C15_AirspaceAltitudePairs ==
    grant # NoGrant =>
        /\ <<grant[1], grant[3]>> \in
              {<<"RESTRICTED", 60>>, <<"CONTROLLED", 90>>, <<"OPEN", 120>>}
        /\ PastHardGate =>
              /\ assessment.wind_risk = "HIGH" => grant[1] = "RESTRICTED"
              /\ assessment.wind_risk = "MEDIUM" => grant[1] = "CONTROLLED"
              /\ assessment.wind_risk = "LOW" => grant[1] = "OPEN"

\* a medium wind risk past the hard gate: CONTROLLED with 90 m
C15_Witness ==
    /\ PastHardGate
    /\ assessment.wind_risk = "MEDIUM"
    /\ grant[1] = "CONTROLLED"
    /\ grant[3] = 90

\* the telemetry is stamped inside the plan window and read at once
InsideWindowAndFresh ==
    /\ TdLE(plan.start_time, telemetry.timestamp)
    /\ TdLE(telemetry.timestamp, plan.end_time)
    /\ current_time = telemetry.timestamp

\* the telemetry reports the position the plan gives for its timestamp
MatchesPlan ==
    << telemetry.latitude, telemetry.longitude, telemetry.altitude_meters >>
        = PlannedPosition(plan, TelemetryElapsed)

\* C16: for a plan of at least 2 waypoints, telemetry stamped inside the plan window,
\* at the plan's interpolated position for that instant and read at that instant is
\* ON_TRACK with position, altitude and time error all 0.
C16_ExactMatchOnTrack ==
    (report # NoReport /\ Len(plan.waypoints) >= 2 /\ InsideWindowAndFresh /\ MatchesPlan) =>
        /\ report.status = "ON_TRACK"
        /\ report.position_error_meters = 0
        /\ report.altitude_error_meters = 0
        /\ report.time_error_seconds = Td(0, 0)

\* a match strictly inside a segment, away from both of its waypoints
C16_Witness ==
    /\ report.status = "ON_TRACK"
    /\ InsideWindowAndFresh
    /\ MatchesPlan
    /\ TelemetryElapsed = Td(3, 0)
    /\ telemetry.longitude \notin {plan.waypoints[k].longitude : k \in 1..Len(plan.waypoints)}

\* a match at the last waypoint, long after the plan reached it
C16_WitnessAfterLast ==
    /\ report.status = "ON_TRACK"
    /\ InsideWindowAndFresh
    /\ MatchesPlan
    /\ plan = LongWindowPlan
    /\ TelemetryElapsed = Td(60, 0)

(***************************************************************************)
(* Claims on handle_flight_request                                         *)
(***************************************************************************)
RequestedPlan ==
    generate_flight_plan(request.route.start_lat, request.route.start_lon,
                         request.route.end_lat, request.route.end_lon,
                         request.start_time, request.speed_mps)

RequestedPlanVerdict == validate_flight_plan(RequestedPlan, DefaultConfig, current_time)

\* C17: for a request with speed > 0 the result is APPROVED with the generated plan
\* and no reason exactly when validate_flight_plan accepts that plan, and otherwise
\* REJECTED with no plan and the violation as reason; a request that starts an hour
\* in the past is REJECTED.
C17_ApprovedIffValid ==
    (approval # NoApproval /\ request.speed_mps > 0) =>
        /\ IF RequestedPlanVerdict = "OK"
           THEN approval = ApprovalResult("APPROVED", RequestedPlan, None)
           ELSE approval = ApprovalResult("REJECTED", NoPlan, RequestedPlanVerdict)
        /\ approval.status = "REJECTED" => approval.flight_plan = NoPlan
        /\ approval.status = "APPROVED" => approval.flight_plan # NoPlan
        /\ request.start_time = TdAdd(current_time, Td(-3600, 0)) =>
              approval.status = "REJECTED"

\* a flight that would pass but for its start an hour ago: REJECTED by Rule 9.1
C17_Witness ==
    /\ approval.status = "REJECTED"
    /\ approval.reason = "9.1"
    /\ request.start_time = TdAdd(current_time, Td(-3600, 0))

\* the same flight an hour from now: APPROVED with its plan
C17_WitnessApproved ==
    /\ approval.status = "APPROVED"
    /\ approval.flight_plan = RequestedPlan
    /\ request.start_time = TdAdd(current_time, Td(3600, 0))

(***************************************************************************)
(* Claims on the order of generate_safe_plan's candidates                  *)
(***************************************************************************)
\* the path runs from the requested origin to the requested destination, both moved
\* by offset in latitude and in longitude
PathIsOffsetBy(path, r, offset) ==
    /\ path[1].lat = r.start_lat + offset
    /\ path[1].lon = r.start_lon + offset
    /\ path[Len(path)].lat = r.end_lat + offset
    /\ path[Len(path)].lon = r.end_lon + offset

\* C18: the candidates are tried in a fixed order and the first that does not conflict
\* is returned: offsets of 0, 0.0003, 0.0006, 0.0009 and 0.0012 degrees on both
\* coordinates of both endpoints at the requested start, then delays of 5, 10 and 15
\* minutes without offset.  The returned start is the requested one or 5, 10 or 15
\* minutes later, and a delayed plan is never offset.
C18_CandidateOrder ==
    safe_plan.path # <<>> =>
        LET k == safe_plan.evaluated - 1
            delay == safe_plan.start - sched_request.start_time
        IN  /\ \A j \in 0..(k - 1) : CandidateConflicts(sched_request, j, existing_flights)
            /\ k \in 0..4 =>
                  /\ delay = 0
                  /\ PathIsOffsetBy(safe_plan.path, sched_request, 300 * k)
            /\ k \in 5..7 =>
                  /\ delay = Seconds(60 * 5 * (k - 4))
                  /\ PathIsOffsetBy(safe_plan.path, sched_request, 0)
            /\ k \in 0..7
            /\ delay \in {0, Seconds(300), Seconds(600), Seconds(900)}
            /\ delay > 0 => PathIsOffsetBy(safe_plan.path, sched_request, 0)

\* a plan delayed by 10 minutes, on the requested line
C18_Witness ==
    /\ safe_plan.path # <<>>
    /\ safe_plan.start = sched_request.start_time + Seconds(600)
    /\ PathIsOffsetBy(safe_plan.path, sched_request, 0)

\* a plan at the requested start, moved by 0.0012 degrees
C18_WitnessOffset ==
    /\ safe_plan.path # <<>>
    /\ safe_plan.start = sched_request.start_time
    /\ PathIsOffsetBy(safe_plan.path, sched_request, 1200)

(***************************************************************************)
(* Claims on callers that run at once                                      *)
(***************************************************************************)
\* two rows of the table conflict: overlapping windows and waypoints within 40 m
RowsConflict(a, b) ==
    /\ WindowsOverlap(a.start_time, a.end_time, b.start_time, b.end_time)
    /\ PathsWithin(a.path_json, b.path_json, 40)

\* the row a caller has saved
SavedRow(c) ==
    FlightRow(c, callers[c].safe_plan.path, callers[c].safe_plan.start,
              callers[c].safe_plan.end)

HasSaved(c) == callers[c].pc = "done" /\ callers[c].safe_plan.path # <<>>

LoadedRowOf(c, d) ==
    \E i \in 1..Len(callers[c].existing_flights) : callers[c].existing_flights[i] = SavedRow(d)

\* C19: the search does not defend against a stale snapshot: two saved flights can
\* conflict, and when they do, neither caller had the other's flight among the
\* flights it loaded.
C19_ConflictOnlyFromStaleSnapshot ==
    \A c \in Callers, d \in Callers :
        (c # d /\ HasSaved(c) /\ HasSaved(d) /\ RowsConflict(SavedRow(c), SavedRow(d))) =>
            (~LoadedRowOf(c, d) /\ ~LoadedRowOf(d, c))

\* the table holds two scheduled flights that conflict with each other
C19_Witness ==
    \E i \in 1..Len(flight_plans), j \in 1..Len(flight_plans) :
        /\ i < j
        /\ flight_plans[i].status = "scheduled"
        /\ flight_plans[j].status = "scheduled"
        /\ RowsConflict(flight_plans[i], flight_plans[j])


(***************************************************************************)
(* Claims on the altitude profile of generate_flight_plan                  *)
(***************************************************************************)
\* The stated profile, in mm at t ms of a flight of T ms: 3 m/s up for 10 s to
\* 30 m, level, 3 m/s down for the last 10 s; under 20 s, up for T/2 and down
\* for T/2.
StatedAltitude(t, T) ==
    IF T >= 20000
    THEN IF t <= 10000 THEN 3 * t
         ELSE IF t <= T - 10000 THEN 30000
         ELSE 3 * (T - t)
    ELSE IF 2 * t <= T THEN 3 * t ELSE 3 * (T - t)

\* The stated peak: 30 m, or 1.5 m per second of a flight under 20 s
StatedPeak(T) == IF T >= 20000 THEN 30000 ELSE (3 * T) \div 2

\* Halving an odd number of ms drops half a ms, which is 3 mm at 3 m/s on the
\* way down and 1 ms over the two halves.
HalvingSlackMs(T) == IF T < 20000 THEN T % 2 ELSE 0

\* C20: a generated plan lasts the minimum flight time T; every waypoint's
\* altitude is on the climb / cruise / descent profile (10 s at 3 m/s each way
\* to 30 m when T >= 20 s, T/2 each way to 1.5 * T m otherwise), lies between
\* the ground and the peak, the peak is at most 30 m, and no two consecutive
\* waypoints differ by more than 3 m per second.
C20_AltitudeProfile ==
    plan # NoPlan =>
        LET T == RequestFlightTime
            slack == HalvingSlackMs(T)
            wps == plan.waypoints
            total == TdSub(TdSub(plan.end_time, plan.start_time), Td(0, 1))
        IN  /\ wps[Len(wps)].time_seconds \in (T - slack)..T
            /\ TdLE(TdOfMs(T - slack), total) /\ TdLE(total, TdOfMs(T))
            /\ StatedPeak(T) <= 30000
            /\ \A i \in 1..Len(wps) :
                   /\ wps[i].altitude_meters >= 0
                   /\ wps[i].altitude_meters <= StatedPeak(T)
                   /\ Abs(wps[i].altitude_meters - StatedAltitude(wps[i].time_seconds, T))
                          <= 3 * slack
            /\ \A i \in Segments(plan) :
                   Abs(wps[i + 1].altitude_meters - wps[i].altitude_meters)
                       <= 3 * (wps[i + 1].time_seconds - wps[i].time_seconds)

\* A flight under 20 s with a waypoint on the way up and one on the way down
C20_Witness ==
    /\ plan # NoPlan
    /\ RequestFlightTime < 20000
    /\ \E i, j \in 2..(Len(plan.waypoints) - 1) :
           /\ i < j
           /\ plan.waypoints[i].altitude_meters > 0
           /\ plan.waypoints[j].altitude_meters > 0
           /\ 2 * plan.waypoints[i].time_seconds < RequestFlightTime
           /\ 2 * plan.waypoints[j].time_seconds > RequestFlightTime

\* A flight over 20 s with waypoints climbing, level at 30 m and descending
C20_WitnessCruise ==
    /\ plan # NoPlan
    /\ RequestFlightTime > 20000
    /\ \E i \in 2..(Len(plan.waypoints) - 1) :
           /\ plan.waypoints[i].time_seconds < 10000
           /\ plan.waypoints[i].altitude_meters \in 1..29999
    /\ \E j \in 2..(Len(plan.waypoints) - 1) :
           /\ plan.waypoints[j].time_seconds > 10000
           /\ plan.waypoints[j].time_seconds < RequestFlightTime - 10000
           /\ plan.waypoints[j].altitude_meters = 30000
    /\ \E k \in 2..(Len(plan.waypoints) - 1) :
           /\ plan.waypoints[k].time_seconds > RequestFlightTime - 10000
           /\ plan.waypoints[k].altitude_meters \in 1..29999


(***************************************************************************)
(* Claims on the waypoint times of generate_flight_plan                    *)
(***************************************************************************)
\* C21 as stated: the waypoints are at 0, 2, 4, ... s, each 2 s after the one
\* before, except the last, which is at most 2 s after its predecessor.
C21_AsStated ==
    plan # NoPlan =>
        LET wps == plan.waypoints
        IN  \A i \in Segments(plan) :
                IF i + 1 < Len(wps)
                THEN /\ wps[i].time_seconds = 2000 * (i - 1)
                     /\ wps[i + 1].time_seconds - wps[i].time_seconds = 2000
                ELSE wps[i + 1].time_seconds - wps[i].time_seconds <= 2000

\* C21, amended: the waypoints divide [0, total_duration] into the fewest equal
\* intervals of at most 2 s: the first is at 0, no interval is longer than 2 s,
\* all intervals are equal (to the ms), and one interval fewer would not do.
C21_EvenIntervals ==
    plan # NoPlan =>
        LET wps == plan.waypoints
            n == Len(wps) - 1
            total_duration == wps[Len(wps)].time_seconds
            gap(i) == wps[i + 1].time_seconds - wps[i].time_seconds
        IN  /\ n >= 1
            /\ wps[1].time_seconds = 0
            /\ \A i \in Segments(plan) :
                   /\ gap(i) >= 0
                   /\ gap(i) <= 2000
                   /\ Abs(gap(i) - gap(1)) <= 1
            /\ n > 1 => (n - 1) * 2000 < total_duration

\* A flight of several intervals, each shorter than 2 s
C21_Witness ==
    /\ plan # NoPlan
    /\ Len(plan.waypoints) > 3
    /\ plan.waypoints[2].time_seconds \in 1..1999
    /\ plan.waypoints[3].time_seconds - plan.waypoints[2].time_seconds \in 1..1999


(***************************************************************************)
(* Claims on the optional limits of validate_flight_plan                   *)
(***************************************************************************)
\* The verdict of the rules that come before the advanced checks
EarlierRulesPass(p, c, now) ==
    /\ StructurallySound(p)
    /\ IdentifierSound(p)
    /\ GeographicallySound(p)
    /\ AltitudeSound(p, c)
    /\ RadiusSound(p, c)
    /\ TemporallySound(p, c, now)
    /\ GeometricallySound(p, c)
    /\ WithinRange(p, c)

\* Some consecutive pair with horizontal distance / time delta over the limit
SomePairFasterThan(p, limit) ==
    \E i \in Segments(p) :
        horizontal_distance_meters(p.waypoints[i], p.waypoints[i + 1]) * 1000
            > limit * (p.waypoints[i + 1].time_seconds - p.waypoints[i].time_seconds)

\* Some ascending segment with altitude gain / time delta over the limit
SomeClimbSteeperThan(p, limit) ==
    \E i \in Segments(p) :
        /\ p.waypoints[i + 1].altitude_meters > p.waypoints[i].altitude_meters
        /\ (p.waypoints[i + 1].altitude_meters - p.waypoints[i].altitude_meters) * 1000
               > limit * (p.waypoints[i + 1].time_seconds - p.waypoints[i].time_seconds)

\* C22: with the velocity, climb-rate and range limits all null, a plan that
\* passes the rules before them is accepted whatever its speeds, climb rates
\* and length, and no verdict is Rule 5.1, 3.3 or 8.2 (ADVANCED); with
\* max_velocity_mps set, a plan that passes the earlier rules is rejected by
\* Rule 5.1 iff some consecutive pair is faster than the limit; with
\* max_climb_rate_mps set, a plan that also passes Rule 5.1 is rejected by
\* Rule 3.3 iff some ascending segment climbs faster than the limit.
C22_OptionalPerformanceRules ==
    (verdict # None /\ request = NoRequest) =>
        /\ (/\ config.max_velocity_mps = NoLimit
            /\ config.max_climb_rate_mps = NoLimit
            /\ config.max_mission_range_meters = NoLimit)
           => /\ verdict \notin {"5.1", "3.3", "8.2A"}
              /\ EarlierRulesPass(plan, config, current_time) => verdict = "OK"
        /\ (config.max_velocity_mps # NoLimit /\ EarlierRulesPass(plan, config, current_time))
           => (verdict = "5.1" <=> SomePairFasterThan(plan, config.max_velocity_mps))
        /\ (/\ config.max_climb_rate_mps # NoLimit
            /\ EarlierRulesPass(plan, config, current_time)
            /\ verdict # "5.1")
           => (verdict = "3.3" <=> SomeClimbSteeperThan(plan, config.max_climb_rate_mps))

\* With no limit set, a plan flying 2.2 km in 10 s is accepted
C22_Witness ==
    /\ verdict = "OK"
    /\ request = NoRequest
    /\ config = DefaultConfig
    /\ SomePairFasterThan(plan, 120)
    /\ calculate_total_path_length(plan.waypoints) > 20000

\* With the velocity limit set, a pair at 12.02 m/s is rejected by Rule 5.1
C22_WitnessVelocity ==
    /\ verdict = "5.1"
    /\ request = NoRequest
    /\ plan.waypoints[2].longitude = 1081

\* ... and a pair just under 12 m/s is accepted
C22_WitnessUnderLimit ==
    /\ verdict = "OK"
    /\ request = NoRequest
    /\ config.max_velocity_mps = 120
    /\ plan.waypoints[2].longitude = 1079

\* With the climb-rate limit set, a climb of 5.0001 m/s is rejected by Rule 3.3
C22_WitnessClimb ==
    /\ verdict = "3.3"
    /\ request = NoRequest
    /\ plan.waypoints[2].altitude_meters = 50001

\* ... and a climb of exactly 5 m/s is accepted
C22_WitnessAtLimit ==
    /\ verdict = "OK"
    /\ request = NoRequest
    /\ config.max_climb_rate_mps = 5000
    /\ plan.waypoints[2].altitude_meters = 50000


\* The configuration with max_descent_rate_mps and max_acceleration_mps2 null
WithoutDescentAndAcceleration(c) ==
    [c EXCEPT !.max_descent_rate_mps = NoLimit, !.max_acceleration_mps2 = NoLimit]

\* Some descending segment with altitude loss / time delta over the limit
SomeDescentSteeperThan(p, limit) ==
    \E i \in Segments(p) :
        (p.waypoints[i].altitude_meters - p.waypoints[i + 1].altitude_meters) * 1000
            > limit * (p.waypoints[i + 1].time_seconds - p.waypoints[i].time_seconds)

\* C23: max_descent_rate_mps and max_acceleration_mps2 are never enforced: the
\* verdict is the one the same plan gets at the same current_time with those
\* two fields null.
C23_DescentAndAccelerationUnused ==
    (verdict # None /\ request = NoRequest) =>
        verdict = validate_flight_plan(plan, WithoutDescentAndAcceleration(config), current_time)

\* A plan descending 100 m in 20 s is accepted under a 1 m/s descent limit
C23_Witness ==
    /\ verdict = "OK"
    /\ request = NoRequest
    /\ config.max_descent_rate_mps = 1000
    /\ config.max_acceleration_mps2 # NoLimit
    /\ SomeDescentSteeperThan(plan, config.max_descent_rate_mps)

\* ... also when the climb-rate limit is set and the loop of Rule 3.3 runs
C23_WitnessWithClimbLimit ==
    /\ verdict = "OK"
    /\ request = NoRequest
    /\ config.max_descent_rate_mps = 1000
    /\ config.max_climb_rate_mps # NoLimit
    /\ SomeDescentSteeperThan(plan, config.max_descent_rate_mps)


(***************************************************************************)
(* Claims on scheduling runs that follow one another                       *)
(***************************************************************************)
\* is_conflicting on the flight of row a against the single flight of row b
PairwiseConflict(a, b) ==
    is_conflicting(a.path_json, a.start_time, a.end_time, <<b>>, DEFAULT_THRESHOLD)

\* C24: when each run loads the scheduled flights, generates a safe plan and
\* saves it as one step, starting from an empty table, no two scheduled flights
\* of the table conflict with each other under is_conflicting.
C24_SerialRegistryConflictFree ==
    \A i \in 1..Len(flight_plans), j \in 1..Len(flight_plans) :
        (/\ i # j
         /\ flight_plans[i].status = "scheduled"
         /\ flight_plans[j].status = "scheduled")
        => ~PairwiseConflict(flight_plans[i], flight_plans[j])

\* Four flights saved for the same request: the later ones were moved aside or
\* delayed, and two of them share a window
C24_Witness ==
    /\ callers = NoCallers
    /\ Len(flight_plans) >= 4
    /\ safe_plan.path # <<>>
    /\ safe_plan.evaluated > 1
    /\ \E i \in 1..Len(flight_plans), j \in 1..Len(flight_plans) :
           /\ i < j
           /\ Overlaps(flight_plans[i].start_time, flight_plans[i].end_time, flight_plans[j])

\* A flight saved after a delay, on the very path of an earlier flight
C24_WitnessSamePath ==
    /\ callers = NoCallers
    /\ \E i \in 1..Len(flight_plans), j \in 1..Len(flight_plans) :
           /\ i < j
           /\ flight_plans[i].path_json[1].lat = flight_plans[j].path_json[1].lat
           /\ flight_plans[i].path_json[1].lon = flight_plans[j].path_json[1].lon
           /\ flight_plans[i].start_time < flight_plans[j].start_time


(***************************************************************************)
(* Claims on the time error of assess_flight_health                        *)
(***************************************************************************)
\* C25: in a report that is not LOST, time_error_seconds is current_time -
\* telemetry.timestamp, whatever the plan's waypoints and the reported position;
\* the report is DELAYED exactly when the position error is at most 10 m, the
\* altitude error at most 5 m and that age is over 10 s and at most 30 s.
C25_TimeErrorIsTelemetryAge ==
    (report # NoReport /\ report.status # "LOST") =>
        /\ report.time_error_seconds = TelemetryAge
        /\ report.status = "DELAYED" <=>
               /\ report.position_error_meters <= 100
               /\ report.altitude_error_meters <= 5000
               /\ TdLT(Td(10, 0), TelemetryAge)
               /\ TdLE(TelemetryAge, Td(30, 0))

\* DELAYED although the telemetry is exactly where the plan puts the drone at the
\* telemetry's timestamp, part way along the path
C25_Witness ==
    /\ report.status = "DELAYED"
    /\ MatchesPlan
    /\ TdLT(Td(0, 0), TelemetryElapsed)
    /\ TdLT(TelemetryElapsed, TdOfMs(plan.waypoints[Len(plan.waypoints)].time_seconds))
    /\ report.time_error_seconds = Td(10, 1)

\* ON_TRACK at an age of exactly 10 s
C25_WitnessOnTrack ==
    /\ report.status = "ON_TRACK"
    /\ TelemetryAge = Td(10, 0)
    /\ TdLT(Td(0, 0), TelemetryElapsed)

\* DELAYED at an age of 30 s, the oldest telemetry that is not LOST
C25_WitnessOldest ==
    /\ report.status = "DELAYED"
    /\ TelemetryAge = Td(30, 0)


(***************************************************************************)
(* Claims on approve_drone with automatic assignment                       *)
(***************************************************************************)
Granted == grant # NoGrant /\ drone # NoDrone

\* C26: when compute_capability feeds auto_assign_authorization, an assessment
\* that passes the hard gate has thrust_margin > 2.2 and safe_time > 15, so the
\* grant is 1.2 times a base of 3.0, 8.0 or 15.0 km, halved or not: the max
\* distance is 1.0 (hard gate only), 1.8, 3.6, 4.8, 9.0, 9.6 or 18.0 km.
C26_PipelineDistances ==
    Granted =>
        /\ (assessment.thrust_state = "SAFE" /\ assessment.endurance_state = "PASS")
           => /\ assessment.thrust_margin > 220
              /\ assessment.safe_time > 1500
              /\ grant[2] \in {18, 36, 48, 90, 96, 180}
        /\ (assessment.thrust_state # "SAFE" \/ assessment.endurance_state # "PASS")
           => grant[2] = 10

\* A grant of 18.0 km, over the 15.0 km tier
C26_Witness ==
    /\ Granted
    /\ grant[2] = 180
    /\ assessment.safe_time >= 4000

\* The smallest grant past the hard gate: 3.0 km halved, times 1.2
C26_WitnessSmallest ==
    /\ Granted
    /\ grant[2] = 18
    /\ assessment.thrust_state = "SAFE"
    /\ assessment.endurance_state = "PASS"

\* 9.0 km: the 15.0 km tier halved for a payload ratio over 0.85, times 1.2
C26_WitnessHalved ==
    /\ Granted
    /\ grant[2] = 90
    /\ assessment.payload_ratio > 85


(***************************************************************************)
(* Claims on rules of validate_flight_plan that cannot fire or always fire *)
(***************************************************************************)
\* The condition Rule 4.3 and Rule 10.1 both test
WindowShortOfFinalWaypoint(p) ==
    TdLT(TdAdd(TdSub(p.end_time, p.start_time), Td(0, 1)),
         TdOfMs(p.waypoints[Len(p.waypoints)].time_seconds))

\* C27: the violation validate_flight_plan raises is never Rule 10.1: its
\* condition is Rule 4.3's, tested earlier on the same values.
C27_Rule101Unreachable ==
    verdict # "10.1"

\* A window 2 microseconds short of the final waypoint time, on a plan whose
\* start time and duration pass rules 9.1 to 9.3: Rule 4.3 is the one raised
C27_Witness ==
    /\ verdict = "4.3"
    /\ request = NoRequest
    /\ WindowShortOfFinalWaypoint(plan)
    /\ TdSub(plan.end_time, plan.start_time) = Td(19, 999998)
    /\ TdSub(plan.start_time, current_time) = Td(10, 0)

\* A plan that passes Rule 4.3 at the tolerance and all of 9.1 to 9.3 comes to
\* the test of Rule 10.1 and passes it
C27_WitnessPasses ==
    /\ verdict = "OK"
    /\ request = NoRequest
    /\ TdSub(plan.end_time, plan.start_time) = Td(19, 999999)
    /\ plan.waypoints[Len(plan.waypoints)].time_seconds = 20000


(***************************************************************************)
(* Claims on the wind risk in auto_assign_authorization                    *)
(***************************************************************************)
\* C28: with thrust_state SAFE and endurance_state PASS, every wind_risk other
\* than HIGH and MEDIUM, a missing or unrecognised one included, is granted
\* OPEN airspace with a max altitude of 120 m.
C28_WindRiskFailOpen ==
    (/\ grant # NoGrant
     /\ assessment.thrust_state = "SAFE"
     /\ assessment.endurance_state = "PASS"
     /\ assessment.wind_risk \notin {"HIGH", "MEDIUM"})
    => (grant[1] = "OPEN" /\ grant[3] = 120)

\* A missing wind_risk is granted OPEN airspace
C28_Witness ==
    /\ grant # NoGrant
    /\ assessment.wind_risk = None
    /\ grant[1] = "OPEN"
    /\ grant[3] = 120

\* ... and so is a misspelt one
C28_WitnessUnrecognised ==
    /\ grant # NoGrant
    /\ assessment.wind_risk = "high"
    /\ grant[1] = "OPEN"
    /\ grant[3] = 120


(***************************************************************************)
(* Claims on what is_conflicting does not read                             *)
(***************************************************************************)
\* Heights (m) and ETAs (half seconds) a waypoint is changed to
OtherAltitudes == {0, 120}

OtherEtas == {0, 7200}

\* The path with waypoint i at another height and ETA
WithAltEta(path, i, alt, eta) == [path EXCEPT ![i].alt = alt, ![i].eta = eta]

\* The existing flights with waypoint i of flight f at another height and ETA
ExistingWithAltEta(existing, f, i, alt, eta) ==
    [existing EXCEPT ![f].path_json = WithAltEta(@, i, alt, eta)]

\* C29: the result of is_conflicting does not change when the alt and eta of a
\* waypoint of the new path or of an existing path are changed, so flights with
\* overlapping windows and waypoints within the threshold of each other on the
\* ground conflict whatever the heights and the times at those waypoints.
C29_IgnoresAltitudeAndEta ==
    conflict # <<>> =>
        LET a == conflict_args
        IN  /\ \A i \in 1..Len(a.new_path), alt \in OtherAltitudes, eta \in OtherEtas :
                   is_conflicting(WithAltEta(a.new_path, i, alt, eta), a.new_start,
                                  a.new_end, a.existing, a.threshold) = conflict[1]
            /\ \A f \in 1..Len(a.existing) :
                   \A i \in 1..Len(a.existing[f].path_json), alt \in OtherAltitudes,
                      eta \in OtherEtas :
                       is_conflicting(a.new_path, a.new_start, a.new_end,
                                      ExistingWithAltEta(a.existing, f, i, alt, eta),
                                      a.threshold) = conflict[1]
            /\ ConflictsWith(a.new_path, a.new_start, a.new_end, a.existing, a.threshold)
                   => conflict[1]

\* A conflict whose only close waypoints are reached at different times, the
\* new flight starting later on the same route
C29_Witness ==
    /\ conflict = << TRUE >>
    /\ \A f \in 1..Len(conflict_args.existing) :
           \A a \in 1..Len(conflict_args.new_path),
              b \in 1..Len(conflict_args.existing[f].path_json) :
               geodesic(conflict_args.new_path[a].lat, conflict_args.new_path[a].lon,
                        conflict_args.existing[f].path_json[b].lat,
                        conflict_args.existing[f].path_json[b].lon)
                   < conflict_args.threshold * 10
               => conflict_args.new_path[a].eta # conflict_args.existing[f].path_json[b].eta

\* A conflict in which a waypoint on the ground is close to one at cruise height
C29_WitnessHeights ==
    /\ conflict = << TRUE >>
    /\ \E f \in 1..Len(conflict_args.existing) :
           \E a \in 1..Len(conflict_args.new_path),
              b \in 1..Len(conflict_args.existing[f].path_json) :
               /\ geodesic(conflict_args.new_path[a].lat, conflict_args.new_path[a].lon,
                           conflict_args.existing[f].path_json[b].lat,
                           conflict_args.existing[f].path_json[b].lon)
                      < conflict_args.threshold * 10
               /\ conflict_args.new_path[a].alt = 0
               /\ conflict_args.existing[f].path_json[b].alt = CRUISE_ALT


\* Every waypoint has the latitude and longitude of the first
SamePointThroughout(p) ==
    \A i \in 1..Len(p.waypoints) :
        /\ p.waypoints[i].latitude = p.waypoints[1].latitude
        /\ p.waypoints[i].longitude = p.waypoints[1].longitude

\* Rule 8.1: no two consecutive waypoints alike in latitude, longitude and altitude
NoConsecutiveDuplicates(p) ==
    \A i \in Segments(p) :
        \/ p.waypoints[i].latitude # p.waypoints[i + 1].latitude
        \/ p.waypoints[i].longitude # p.waypoints[i + 1].longitude
        \/ p.waypoints[i].altitude_meters # p.waypoints[i + 1].altitude_meters

\* C30: a plan whose waypoints all share one latitude and longitude is never
\* accepted; when its consecutive waypoints differ in altitude and no earlier
\* rule fails, it is rejected by Rule 8.2, its horizontal path length being 0.
C30_VerticalHopRejected ==
    (verdict # None /\ request = NoRequest /\ StructurallySound(plan)
         /\ SamePointThroughout(plan)) =>
        /\ verdict # "OK"
        /\ (/\ IdentifierSound(plan)
            /\ GeographicallySound(plan)
            /\ AltitudeSound(plan, config)
            /\ RadiusSound(plan, config)
            /\ TemporallySound(plan, config, current_time)
            /\ NoConsecutiveDuplicates(plan))
           => verdict = "8.2"

\* A hop straight up to 30 m and back down, sound in every other respect
C30_Witness ==
    /\ verdict = "8.2"
    /\ request = NoRequest
    /\ SamePointThroughout(plan)
    /\ NoConsecutiveDuplicates(plan)
    /\ plan.waypoints[2].altitude_meters = 30000
    /\ calculate_total_path_length(plan.waypoints) = 0

====
